---- MODULE Spec2Model ----
(***************************************************************************)
(* Verification model of sgnl-actions/aad-unassign-role-from-user.         *)
(*                                                                         *)
(* Two layers are modelled:                                                *)
(*   - the template resolver of the bundled utilities (dist/index.js):     *)
(*     resolveJsonPathTemplates, resolveTemplateString,                    *)
(*     extractJsonPathValue, valueToString, injectSgnlNamespace and the    *)
(*     part of the JSONPath engine they reach (toPathArray, evaluate,      *)
(*     _trace, _walk);                                                     *)
(*   - the action itself (src/script.mjs): the invoke, error and halt      *)
(*     handlers and the two HTTP requests invoke issues.                   *)
(*                                                                         *)
(* JavaScript strings are sequences of one-character strings, so that      *)
(* scanning, splitting, encoding and serialisation are computed and not    *)
(* assumed.  JavaScript values are tagged records.                         *)
(***************************************************************************)
EXTENDS Integers, Sequences, FiniteSets, TLC

(***************************************************************************)
(* JavaScript values                                                       *)
(***************************************************************************)
Undefined == [t |-> "undefined"]
Null == [t |-> "null"]
Str(s) == [t |-> "str", s |-> s]
Num(n) == [t |-> "num", n |-> n]
Bool(b) == [t |-> "bool", b |-> b]
\* An object keeps its own enumerable entries in insertion order: kv is a
\* sequence of <<key, value>> pairs, keys being strings (character sequences).
Obj(kv) == [t |-> "obj", kv |-> kv]
Arr(items) == [t |-> "arr", items |-> items]

\* `const v = ...` followed by the code that reads v: the value is computed
\* once and named in Body
Let(v, Body(_)) == Body(v)

\* A faulty ToBoolean: the empty string counts as true
TruthyEmptyString(v) ==
  CASE v.t = "undefined" -> FALSE
    [] v.t = "null" -> FALSE
    [] v.t = "str" -> TRUE
    [] v.t = "num" -> v.n # 0
    [] v.t = "nan" -> FALSE
    [] v.t = "bool" -> v.b
    [] OTHER -> TRUE

\* ToBoolean
Truthy(v) ==
  CASE v.t = "undefined" -> FALSE
    [] v.t = "null" -> FALSE
    [] v.t = "str" -> v.s # <<>>
    [] v.t = "num" -> v.n # 0
    [] v.t = "nan" -> FALSE
    [] v.t = "bool" -> v.b
    [] OTHER -> TRUE

\* typeof v === 'object' (true of null as well)
TypeofObject(v) == v.t \in {"obj", "arr", "null"}


\* printable ASCII, the character of code 32 first; the grave accent (code
\* 96), which no string of the model holds, is written out by name
AsciiChars ==
  <<" ", "!", "\"", "#", "$", "%", "&", "'", "(", ")", "*", "+", ",", "-", ".", "/",
    "0", "1", "2", "3", "4", "5", "6", "7", "8", "9", ":", ";", "<", "=", ">", "?",
    "@", "A", "B", "C", "D", "E", "F", "G", "H", "I", "J", "K", "L", "M", "N", "O",
    "P", "Q", "R", "S", "T", "U", "V", "W", "X", "Y", "Z", "[", "\\", "]", "^", "_",
    "grave", "a", "b", "c", "d", "e", "f", "g", "h", "i", "j", "k", "l", "m", "n", "o",
    "p", "q", "r", "s", "t", "u", "v", "w", "x", "y", "z", "{", "|", "}", "~">>
CharCode(c) == 31 + (CHOOSE i \in 1..Len(AsciiChars) : AsciiChars[i] = c)

DigitChars == <<"0", "1", "2", "3", "4", "5", "6", "7", "8", "9">>
IsDigit(c) == \E i \in 1..10 : DigitChars[i] = c

\* s is a run of digits
AllDigitChars(s) == \A i \in 1..Len(s) : IsDigit(s[i])
\* the number a run of digits of at most two digits writes
DigitCharsValue(s) ==
  CHOOSE n \in 0..99 : \/ (Len(s) = 1 /\ s = <<DigitChars[n + 1]>> /\ n < 10)
                       \/ (Len(s) = 2 /\ n >= 10
                            /\ s = <<DigitChars[(n \div 10) + 1], DigitChars[(n % 10) + 1]>>)
                       \/ (Len(s) = 2 /\ n < 10 /\ s = <<"0", DigitChars[n + 1]>>)

\* String(n) for a natural number n
RECURSIVE NumToChars(_)
NumToChars(n) ==
  IF n < 10 THEN <<DigitChars[n + 1]>>
  ELSE NumToChars(n \div 10) \o <<DigitChars[(n % 10) + 1]>>

\* Position of key k among the entries of object o, 0 when o has no such key
ObjIndex(o, k) ==
  IF \E i \in 1..Len(o.kv) : o.kv[i][1] = k
  THEN CHOOSE i \in 1..Len(o.kv) : o.kv[i][1] = k
  ELSE 0

\* o[k] for an object o
ObjGet(o, k) == IF ObjIndex(o, k) = 0 THEN Undefined ELSE o.kv[ObjIndex(o, k)][2]

\* {...o, [k]: v}: an existing key keeps its position, a new key is appended
ObjPut(o, k, v) ==
  IF ObjIndex(o, k) = 0
  THEN Obj(Append(o.kv, <<k, v>>))
  ELSE Obj([o.kv EXCEPT ![ObjIndex(o, k)] = <<k, v>>])

\* {...a, ...b}
RECURSIVE ObjSpread(_, _)
ObjSpread(a, bkv) ==
  IF bkv = <<>> THEN a
  ELSE ObjSpread(ObjPut(a, Head(bkv)[1], Head(bkv)[2]), Tail(bkv))

\* The entries `...v` contributes to an object literal: those of an object,
\* none for undefined, null, numbers and booleans.
SpreadEntries(v) == IF v.t = "obj" THEN v.kv ELSE <<>>

\* v?.[k]
OptGet(v, k) == IF v.t = "obj" THEN ObjGet(v, k) ELSE Undefined

(***************************************************************************)
(* JSON.stringify                                                          *)
(***************************************************************************)
\* A quoted JSON string: the quote and the backslash are escaped.
RECURSIVE EscapeChars(_)
EscapeChars(s) ==
  IF s = <<>> THEN <<>>
  ELSE (IF Head(s) \in {"\"", "\\"} THEN <<"\\", Head(s)>> ELSE <<Head(s)>>)
       \o EscapeChars(Tail(s))

Quote(s) == <<"\"">> \o EscapeChars(s) \o <<"\"">>

RECURSIVE JoinComma(_)
JoinComma(parts) ==
  IF parts = <<>> THEN <<>>
  ELSE IF Len(parts) = 1 THEN parts[1]
  ELSE parts[1] \o <<",">> \o JoinComma(Tail(parts))

RECURSIVE JSONstringify(_)
RECURSIVE StringifyItems(_)
RECURSIVE StringifyEntries(_)
\* array elements: undefined is written as null
StringifyItems(items) ==
  IF items = <<>> THEN <<>>
  ELSE <<IF Head(items).t = "undefined" THEN <<"n", "u", "l", "l">>
         ELSE JSONstringify(Head(items))>> \o StringifyItems(Tail(items))

\* object entries: an entry whose value is undefined is left out
StringifyEntries(kv) ==
  IF kv = <<>> THEN <<>>
  ELSE (IF Head(kv)[2].t = "undefined" THEN <<>>
        ELSE <<Quote(Head(kv)[1]) \o <<":">> \o JSONstringify(Head(kv)[2])>>)
       \o StringifyEntries(Tail(kv))

JSONstringify(v) ==
  CASE v.t = "str" -> Quote(v.s)
    [] v.t = "num" -> NumToChars(v.n)
    [] v.t = "bool" -> IF v.b THEN <<"t", "r", "u", "e">> ELSE <<"f", "a", "l", "s", "e">>
    [] v.t = "null" -> <<"n", "u", "l", "l">>
    [] v.t = "arr" -> <<"[">> \o JoinComma(StringifyItems(v.items)) \o <<"]">>
    [] v.t = "obj" -> <<"{">> \o JoinComma(StringifyEntries(v.kv)) \o <<"}">>

(***************************************************************************)
(* JSONPath: path normalisation (JSONPath.toPathArray)                     *)
(*                                                                         *)
(* The paths of the model are written with `$`, `.`, `@`, `*`, `:`, `-`,   *)
(* `[`, `]`, digits, the letters of property names and, between brackets,  *)
(* a filter `?(...)` or a script `(...)` that holds no bracket and no       *)
(* quote; none of them holds a quote, `~`, `^`, `#` or `;`.  On such a path *)
(* the replacements of toPathArray that look for those characters change   *)
(* nothing; the ones that remain are modelled: a parenthetical between     *)
(* brackets is set aside and `#` with its number put in its place, a `.`   *)
(* outside brackets and every `[` become the separator `;`, a run of two   *)
(* or three separators becomes `;..;`, every `]` and one trailing          *)
(* separator are removed, the text is split at the separators and the      *)
(* parentheticals are put back.                                            *)
(***************************************************************************)
\* .replaceAll(/['"]?\.['"]?(?![^[]*\])|\[['"]?/gu, ';')
\* The lookahead (?![^[]*\]) fails where a `]` follows with no `[` before it.
ClosesBracket(s, i) ==
  \E j \in (i + 1)..Len(s) : s[j] = "]" /\ \A k \in (i + 1)..(j - 1) : s[k] # "["
SplitByPropertyBoundaries(s) ==
  [i \in 1..Len(s) |-> IF (s[i] = "." /\ ~ClosesBracket(s, i)) \/ s[i] = "["
                       THEN ";" ELSE s[i]]

\* .replaceAll(/;;;|;;/gu, ';..;'): leftmost, the longer alternative first
RECURSIVE Descendents(_)
Descendents(s) ==
  IF s = <<>> THEN <<>>
  ELSE IF Len(s) >= 3 /\ s[1] = ";" /\ s[2] = ";" /\ s[3] = ";"
  THEN <<";", ".", ".", ";">> \o Descendents(SubSeq(s, 4, Len(s)))
  ELSE IF Len(s) >= 2 /\ s[1] = ";" /\ s[2] = ";"
  THEN <<";", ".", ".", ";">> \o Descendents(SubSeq(s, 3, Len(s)))
  ELSE <<Head(s)>> \o Descendents(Tail(s))

\* .replaceAll(/;$|'?\]|'$/gu, ''): on these paths, the separator that ends
\* the text and every `]`
RECURSIVE WithoutClosing(_)
WithoutClosing(s) ==
  IF s = <<>> THEN <<>>
  ELSE IF Head(s) = "]" THEN WithoutClosing(Tail(s))
  ELSE <<Head(s)>> \o WithoutClosing(Tail(s))
RemoveTrailing(s) ==
  WithoutClosing(IF s # <<>> /\ s[Len(s)] = ";" THEN SubSeq(s, 1, Len(s) - 1) ELSE s)

\* String.prototype.split(';'): acc is the segment being read
RECURSIVE SplitSemicolon(_, _)
SplitSemicolon(s, acc) ==
  IF s = <<>> THEN <<acc>>
  ELSE IF Head(s) = ";" THEN <<acc>> \o SplitSemicolon(Tail(s), <<>>)
  ELSE SplitSemicolon(Tail(s), Append(acc, Head(s)))

\* Where the match of /[['](\??\(.*?\))[\]'](?!.\])/ that starts at the head
\* of s has its `)`, 0 when there is no match there: s opens with `[(` or
\* `[?(`, and the `)` is the first one that a `]` follows which is not itself
\* followed by one character and a `]`.
ParentheticalEnd(s) ==
  IF /\ Len(s) >= 2 /\ s[1] = "["
     /\ \/ s[2] = "("
        \/ (Len(s) >= 3 /\ s[2] = "?" /\ s[3] = "(")
  THEN Let({j \in 2..(Len(s) - 1) :
              /\ s[j] = ")" /\ s[j + 1] = "]"
              /\ \E o \in 2..j : s[o] = "(" /\ o < j
              /\ ~(j + 3 <= Len(s) /\ s[j + 3] = "]")},
           LAMBDA ends : IF ends = {} THEN 0
                         ELSE CHOOSE j \in ends : \A k \in ends : j <= k)
  ELSE 0

\* .replaceAll(/[['](\??\(.*?\))[\]'](?!.\])/gu, ...): [text, subx], subx
\* being the parentheticals set aside so far
RECURSIVE Parentheticals(_, _)
Parentheticals(s, subx) ==
  IF \A i \in 1..Len(s) : s[i] # "(" THEN [text |-> s, subx |-> subx]
  ELSE IF ParentheticalEnd(s) = 0
  THEN Let(Parentheticals(Tail(s), subx), LAMBDA r :
           [text |-> <<Head(s)>> \o r.text, subx |-> r.subx])
  ELSE Let(Parentheticals(SubSeq(s, ParentheticalEnd(s) + 2, Len(s)),
                          Append(subx, SubSeq(s, 2, ParentheticalEnd(s)))),
           LAMBDA r :
             [text |-> <<"[", "#">> \o NumToChars(Len(subx)) \o <<"]">> \o r.text,
              subx |-> r.subx])

\* exp.match(/#(\d+)/u): a segment `#n` stands for the n-th parenthetical
Reinserted(exp, subx) ==
  IF Len(exp) >= 2 /\ exp[1] = "#" /\ AllDigitChars(Tail(exp))
  THEN subx[DigitCharsValue(Tail(exp)) + 1]
  ELSE exp

\* The segment list toPathArray computes on a cache miss
normalizePath(expr) ==
  Let(Parentheticals(expr, <<>>), LAMBDA p :
  Let(SplitSemicolon(RemoveTrailing(Descendents(SplitByPropertyBoundaries(p.text))), <<>>),
      LAMBDA segments :
        IF p.subx = <<>> THEN segments
        ELSE [i \in 1..Len(segments) |-> Reinserted(segments[i], p.subx)]))

\* JSONPath.cache is a mapping from raw path strings to segment lists.
EmptyCache == [p \in {} |-> <<>>]
CachePut(cache, k, v) == [p \in DOMAIN cache \cup {k} |-> IF p = k THEN v ELSE cache[p]]

\* JSONPath.toPathArray without the .concat() of its two returns: the caller
\* is handed the list object the cache holds.
toPathArrayShared(expr, cache) ==
  IF expr \in DOMAIN cache
  THEN [list |-> cache[expr], cache |-> cache, shared |-> TRUE]
  ELSE [list |-> normalizePath(expr), cache |-> CachePut(cache, expr, normalizePath(expr)),
        shared |-> TRUE]

\* JSONPath.toPathArray: the cached list on a hit, the computed list on a
\* miss, which is also stored.  The result is [list, cache, shared]; shared
\* tells whether the list returned is the very object the cache holds, which
\* it never is, as both returns are cache[expr].concat(), a copy.
toPathArray(expr, cache) ==
  IF expr \in DOMAIN cache
  THEN [list |-> cache[expr], cache |-> cache, shared |-> FALSE]
  ELSE [list |-> normalizePath(expr), cache |-> CachePut(cache, expr, normalizePath(expr)),
        shared |-> FALSE]

(***************************************************************************)
(* JSONPath: tracing (JSONPath.prototype._trace, _walk, evaluate)          *)
(***************************************************************************)
LengthKey == <<"l", "e", "n", "g", "t", "h">>

\* loc is the numeral of an index below n
IsIndexBelow(loc, n) == \E i \in 0..(n - 1) : NumToChars(i) = loc
IndexOf(loc, n) == CHOOSE i \in 0..(n - 1) : NumToChars(i) = loc

\* Object.hasOwn(val, loc) for a truthy val
HasOwn(val, loc) ==
  CASE val.t = "obj" -> ObjIndex(val, loc) # 0
    [] val.t = "arr" -> loc = LengthKey \/ IsIndexBelow(loc, Len(val.items))
    [] val.t = "str" -> loc = LengthKey \/ IsIndexBelow(loc, Len(val.s))
    [] OTHER -> FALSE

\* val[loc] where HasOwn(val, loc)
GetOwn(val, loc) ==
  CASE val.t = "obj" -> ObjGet(val, loc)
    [] val.t = "arr" -> IF loc = LengthKey THEN Num(Len(val.items))
                        ELSE val.items[IndexOf(loc, Len(val.items)) + 1]
    [] val.t = "str" -> IF loc = LengthKey THEN Num(Len(val.s))
                        ELSE Str(<<val.s[IndexOf(loc, Len(val.s)) + 1]>>)

\* A faulty _walk: the children are visited from the last to the first
WalkChildrenReversed(val) ==
  CASE val.t = "arr" -> [i \in 1..Len(val.items) |-> val.items[Len(val.items) + 1 - i]]
    [] val.t = "obj" -> [i \in 1..Len(val.kv) |-> val.kv[Len(val.kv) + 1 - i][2]]
    [] OTHER -> <<>>

\* The children _walk visits, in its order: the elements of an array by index,
\* the values of an object by key order; nothing for any other value.
WalkChildren(val) ==
  CASE val.t = "arr" -> val.items
    [] val.t = "obj" -> [i \in 1..Len(val.kv) |-> val.kv[i][2]]
    [] OTHER -> <<>>

ValueTypeNames ==
  { <<"s", "c", "a", "l", "a", "r">>, <<"b", "o", "o", "l", "e", "a", "n">>,
    <<"s", "t", "r", "i", "n", "g">>, <<"u", "n", "d", "e", "f", "i", "n", "e", "d">>,
    <<"f", "u", "n", "c", "t", "i", "o", "n">>, <<"i", "n", "t", "e", "g", "e", "r">>,
    <<"n", "u", "m", "b", "e", "r">>, <<"n", "o", "n", "F", "i", "n", "i", "t", "e">>,
    <<"o", "b", "j", "e", "c", "t">>, <<"a", "r", "r", "a", "y">>,
    <<"o", "t", "h", "e", "r">>, <<"n", "u", "l", "l">> }

\* The switch of the `@` branch: does val pass the value-type test?
\* (`other` is not here: its default callback throws.)
ValueTypeTest(valueType, val) ==
  CASE valueType = <<"s", "c", "a", "l", "a", "r">> -> val.t \notin {"obj", "arr"}
    [] valueType = <<"b", "o", "o", "l", "e", "a", "n">> -> val.t = "bool"
    [] valueType = <<"s", "t", "r", "i", "n", "g">> -> val.t = "str"
    [] valueType = <<"u", "n", "d", "e", "f", "i", "n", "e", "d">> -> val.t = "undefined"
    [] valueType = <<"i", "n", "t", "e", "g", "e", "r">> -> val.t = "num"
    [] valueType = <<"n", "u", "m", "b", "e", "r">> -> val.t = "num"
    [] valueType = <<"o", "b", "j", "e", "c", "t">> -> val.t \in {"obj", "arr"}
    [] valueType = <<"a", "r", "r", "a", "y">> -> val.t = "arr"
    [] valueType = <<"n", "u", "l", "l">> -> val.t = "null"
    [] OTHER -> FALSE

\* String.prototype.split(':')
RECURSIVE SplitColon(_, _)
SplitColon(s, acc) ==
  IF s = <<>> THEN <<acc>>
  ELSE IF Head(s) = ":" THEN <<acc>> \o SplitColon(Tail(s), <<>>)
  ELSE SplitColon(Tail(s), Append(acc, Head(s)))

AllDigits(s) == \A i \in 1..Len(s) : IsDigit(s[i])
\* s matches -?\d*
IsSignedDigits(s) == AllDigits(IF s # <<>> /\ s[1] = "-" THEN Tail(s) ELSE s)

\* /^(-?\d*):(-?\d*):?(\d*)$/u.test(loc)
IsSlice(loc) ==
  LET parts == SplitColon(loc, <<>>)
  IN /\ Len(parts) \in {2, 3}
     /\ IsSignedDigits(parts[1])
     /\ IsSignedDigits(parts[2])
     /\ Len(parts) = 3 => AllDigits(parts[3])

DigitValue(c) == (CHOOSE i \in 1..10 : DigitChars[i] = c) - 1
RECURSIVE DigitsValue(_, _)
DigitsValue(s, acc) ==
  IF s = <<>> THEN acc ELSE DigitsValue(Tail(s), 10 * acc + DigitValue(Head(s)))

\* part && Number.parseInt(part) || dflt, for a part matching -?\d*: the
\* default stands in for a missing or empty part, for NaN (a lone `-`) and
\* for zero.
ParseIntOr(parts, i, dflt) ==
  IF i > Len(parts) \/ parts[i] = <<>> \/ parts[i] = <<"-">> THEN dflt
  ELSE LET neg == parts[i][1] = "-"
           n == DigitsValue(IF neg THEN Tail(parts[i]) ELSE parts[i], 0)
       IN IF n = 0 THEN dflt ELSE IF neg THEN 0 - n ELSE n

Max(a, b) == IF a >= b THEN a ELSE b
Min(a, b) == IF a <= b THEN a ELSE b
\* start < 0 ? Math.max(0, start + len) : Math.min(len, start)
ClampIndex(i, len) == IF i < 0 THEN Max(0, i + len) ELSE Min(len, i)

\* for (let i = start; i < end; i += step): the indices visited, in order
RECURSIVE SliceIndices(_, _, _)
SliceIndices(i, end, step) ==
  IF i < end THEN <<i>> \o SliceIndices(i + step, end, step) ELSE <<>>

\* The indices JSONPath.prototype._slice visits on an array of length len
_sliceIndices(loc, len) ==
  LET parts == SplitColon(loc, <<>>)
  IN SliceIndices(ClampIndex(ParseIntOr(parts, 1, 0), len),
                  ClampIndex(ParseIntOr(parts, 2, len), len),
                  ParseIntOr(parts, 3, 1))

(***************************************************************************)
(* The expression parser (class Jsep with the ternary and the assignment   *)
(* plugins registered)                                                     *)
(*                                                                         *)
(* The parser object holds the text and an index into it; here every       *)
(* gobble operator takes the text s and the index i (from 0, as in the     *)
(* code) and gives [ok, node, index]: ok is false when throwError was      *)
(* called, and node is NoNode where the code returns false (no token).     *)
(* The texts of the model hold numbers, names, quoted strings without a    *)
(* backslash, operators, parentheses, `.` and brackets after a name,       *)
(* `?` and `:`.  Not modelled, as no text of the model reaches them: a     *)
(* token that starts with `/` (the regex plugin) or with `[` (an array),   *)
(* a call, `?.`, and the fraction and the exponent of a number.            *)
(***************************************************************************)
NoNode == [type |-> "none"]
Gobbled(node, i) == [ok |-> TRUE, node |-> node, index |-> i]
ThrowError == [ok |-> FALSE, node |-> NoNode, index |-> 0]

\* this.expr.charAt(index): the empty string past the end
CharAt(s, i) == IF i >= 0 /\ i < Len(s) THEN s[i + 1] ELSE ""
\* this.expr.substr(index, n)
Substr(s, i, n) == SubSeq(s, i + 1, Min(Len(s), i + n))

isDecimalDigit(ch) == IsDigit(ch)
additional_identifier_chars == {"$", "_"}
\* Jsep.isIdentifierStart for the characters below code 128
isIdentifierStart(ch) ==
  /\ ch # ""
  /\ \/ ch \in additional_identifier_chars
     \/ \E k \in 1..Len(AsciiChars) :
          /\ AsciiChars[k] = ch
          /\ (k + 31 >= 65 /\ k + 31 <= 90) \/ (k + 31 >= 97 /\ k + 31 <= 122)
isIdentifierPart(ch) == isIdentifierStart(ch) \/ isDecimalDigit(ch)

\* Jsep.gobbleSpaces: the index of the first character that is no space, tab,
\* line feed or carriage return (no gobble-spaces hook is registered)
RECURSIVE gobbleSpaces(_, _)
gobbleSpaces(s, i) ==
  IF CharAt(s, i) \in {" ", "\t", "\n", "\r"} THEN gobbleSpaces(s, i + 1) ELSE i

\* Jsep.unary_ops, with typeof added by jsep.addUnaryOp
unary_ops == {<<"-">>, <<"!">>, <<"~">>, <<"+">>, <<"t", "y", "p", "e", "o", "f">>}

\* Jsep.binary_ops after the assignment plugin has added its operators.
\* Each precedence is written ten times its value in the code, where the
\* precedence of an assignment is 0.9.
binary_ops ==
  << <<<<"|", "|">>, 10>>, <<<<"?", "?">>, 10>>, <<<<"&",
      "&">>, 20>>, <<<<"|">>, 30>>, <<<<"^">>, 40>>,
     <<<<"&">>, 50>>, <<<<"=", "=">>, 60>>, <<<<"!", "=">>, 60>>, <<<<"=", "=",
         "=">>, 60>>, <<<<"!", "=", "=">>, 60>>,
     <<<<"<">>, 70>>, <<<<">">>, 70>>, <<<<"<", "=">>, 70>>, <<<<">", "=">>, 70>>, <<<<"<",
         "<">>, 80>>,
     <<<<">", ">">>, 80>>, <<<<">", ">",
         ">">>, 80>>, <<<<"+">>, 90>>, <<<<"-">>, 90>>, <<<<"*">>, 100>>,
     <<<<"/">>, 100>>, <<<<"%">>, 100>>, <<<<"*", "*">>, 110>>,
     <<<<"=">>, 9>>, <<<<"*", "=">>, 9>>, <<<<"*", "*", "=">>, 9>>, <<<<"/",
         "=">>, 9>>, <<<<"%", "=">>, 9>>,
     <<<<"+", "=">>, 9>>, <<<<"-", "=">>, 9>>, <<<<"<", "<", "=">>, 9>>, <<<<">", ">",
         "=">>, 9>>, <<<<">", ">", ">", "=">>, 9>>,
     <<<<"&", "=">>, 9>>, <<<<"^", "=">>, 9>>, <<<<"|", "=">>, 9>>, <<<<"|", "|",
         "=">>, 9>>, <<<<"&", "&", "=">>, 9>>,
     <<<<"?", "?", "=">>, 9>> >>
\* plugin.assignmentOperators
assignmentOperators == {binary_ops[k][1] : k \in {j \in 1..Len(binary_ops) : binary_ops[j][2] = 9}}
\* Jsep.right_associative after the assignment plugin has added its operators
right_associative == {<<"*", "*">>} \cup assignmentOperators
isBinaryOp(op) == \E k \in 1..Len(binary_ops) : binary_ops[k][1] = op
\* Jsep.binaryPrecedence: Jsep.binary_ops[op_val] || 0
binaryPrecedence(op_val) ==
  IF isBinaryOp(op_val)
  THEN binary_ops[CHOOSE k \in 1..Len(binary_ops) : binary_ops[k][1] = op_val][2]
  ELSE 0
\* Jsep.getMaxKeyLen
getMaxKeyLen(ops) == CHOOSE n \in {Len(op) : op \in ops} : \A op \in ops : Len(op) <= n
max_unop_len == getMaxKeyLen(unary_ops)
max_binop_len == getMaxKeyLen({binary_ops[k][1] : k \in 1..Len(binary_ops)})

\* The test both gobbleBinaryOp and gobbleToken make of a candidate operator:
\* it is in the table, and if it starts like a name it does not run on into
\* one.
IsOperatorAt(s, i, to_check, known) ==
  /\ known
  /\ \/ ~isIdentifierStart(CharAt(s, i))
     \/ /\ i + Len(to_check) < Len(s)
        /\ ~isIdentifierPart(CharAt(s, i + Len(to_check)))

\* The `while (tc_len > 0)` loop of gobbleBinaryOp: the longest operator at i
\* that passes the test, <<>> (the code's false) when there is none.
RECURSIVE LongestBinaryOp(_, _, _)
LongestBinaryOp(s, i, tc_len) ==
  IF tc_len = 0 THEN <<>>
  ELSE IF IsOperatorAt(s, i, Substr(s, i, tc_len), isBinaryOp(Substr(s, i, tc_len)))
  THEN Substr(s, i, tc_len)
  ELSE LongestBinaryOp(s, i, tc_len - 1)

\* Jsep.gobbleBinaryOp: [op, index]; the spaces before are consumed either way
gobbleBinaryOp(s, i) ==
  Let(gobbleSpaces(s, i), LAMBDA j :
  Let(LongestBinaryOp(s, j, Min(max_binop_len, Len(s) - j)), LAMBDA op :
      [op |-> op, index |-> j + Len(op)]))

LiteralNode(value, raw) == [type |-> "Literal", value |-> value, raw |-> raw]
IdentifierNode(name) == [type |-> "Identifier", name |-> name]

RECURSIVE DigitsEnd(_, _)
\* the index after the digits that start at i
DigitsEnd(s, i) == IF isDecimalDigit(CharAt(s, i)) THEN DigitsEnd(s, i + 1) ELSE i

\* Jsep.gobbleNumericLiteral for a number written with digits alone
gobbleNumericLiteral(s, i) ==
  Let(DigitsEnd(s, i), LAMBDA j :
      IF isIdentifierStart(CharAt(s, j)) \/ CharAt(s, j) = "."
      THEN ThrowError
      ELSE Gobbled(LiteralNode(Num(DigitsValue(SubSeq(s, i + 1, j), 0)), SubSeq(s, i + 1, j)),
                   j))

RECURSIVE QuoteEnd(_, _, _)
\* the index of the closing quote, Len(s) when the string is not closed
QuoteEnd(s, i, quote) ==
  IF i >= Len(s) THEN Len(s) ELSE IF CharAt(s, i) = quote THEN i ELSE QuoteEnd(s, i + 1, quote)

\* Jsep.gobbleStringLiteral for a string without a backslash
gobbleStringLiteral(s, i) ==
  Let(QuoteEnd(s, i + 1, CharAt(s, i)), LAMBDA j :
      IF j >= Len(s) THEN ThrowError
      ELSE Gobbled(LiteralNode(Str(SubSeq(s, i + 2, j)), SubSeq(s, i + 1, j + 1)), j + 1))

RECURSIVE IdentifierEnd(_, _)
IdentifierEnd(s, i) == IF isIdentifierPart(CharAt(s, i)) THEN IdentifierEnd(s, i + 1) ELSE i

\* Jsep.gobbleIdentifier
gobbleIdentifier(s, i) ==
  IF ~isIdentifierStart(CharAt(s, i)) THEN ThrowError
  ELSE Let(IdentifierEnd(s, i + 1), LAMBDA j : Gobbled(IdentifierNode(SubSeq(s, i + 1, j)), j))

\* Jsep.literals, with null and undefined added by jsep.addLiteral
literals ==
  << <<<<"t", "r", "u", "e">>, Bool(TRUE)>>, <<<<"f", "a", "l", "s",
      "e">>, Bool(FALSE)>>, <<<<"n", "u", "l", "l">>, Null>>,
     <<<<"u", "n", "d", "e", "f", "i", "n", "e", "d">>, Undefined>> >>
isLiteral(name) == \E k \in 1..Len(literals) : literals[k][1] = name
literalValue(name) == literals[CHOOSE k \in 1..Len(literals) : literals[k][1] = name][2]
this_str == <<"t", "h", "i", "s">>

UpdateNode(operator, argument, prefix) ==
  [type |-> "UpdateExpression", operator |-> operator, argument |-> argument,
   prefix |-> prefix]
\* updateNodeTypes of the assignment plugin
updateNodeTypes == {"Identifier", "MemberExpression"}
\* plugin.updateOperators.some(c => c === code && c === next code)
IsUpdateOperatorAt(s, i) == CharAt(s, i) \in {"+", "-"} /\ CharAt(s, i + 1) = CharAt(s, i)

\* The after-token hook of the assignment plugin (gobbleUpdatePostfix), run
\* on what gobbleToken is about to return
gobbleUpdatePostfix(s, r) ==
  IF ~r.ok \/ r.node = NoNode \/ ~IsUpdateOperatorAt(s, r.index) THEN r
  ELSE IF r.node.type \notin updateNodeTypes THEN ThrowError
  ELSE Gobbled(UpdateNode(<<CharAt(s, r.index), CharAt(s, r.index)>>, r.node, FALSE),
               r.index + 2)

MemberNode(computed, object, property) ==
  [type |-> "MemberExpression", computed |-> computed, object |-> object,
   property |-> property]
UnaryNode(operator, argument) ==
  [type |-> "UnaryExpression", operator |-> operator, argument |-> argument,
   prefix |-> TRUE]
BinaryNode(operator, left, right) ==
  [type |-> "BinaryExpression", operator |-> operator, left |-> left, right |-> right]
ConditionalNode(test, consequent, alternate) ==
  [type |-> "ConditionalExpression", test |-> test, consequent |-> consequent,
   alternate |-> alternate]

CallNode(arguments, callee) ==
  [type |-> "CallExpression", arguments |-> arguments, callee |-> callee]

\* node.operator is a non-empty string
HasOperator(node) == "operator" \in DOMAIN node
\* A faulty test: no node counts as an assignment
NeverAssignmentLevel(node) == FALSE

\* node.operator && jsep.binary_ops[node.operator] <= 0.9
IsAssignmentLevel(node) ==
  HasOperator(node) /\ isBinaryOp(node.operator) /\ binaryPrecedence(node.operator) <= 9

\* The re-rooting of gobbleTernary: the conditional cond, whose test is the
\* expression test, goes down the right operands of test while they are
\* assignments, takes the last of them as its own test and is put in its
\* place.
RECURSIVE Reroot(_, _)
Reroot(test, cond) ==
  IF IsAssignmentLevel(test.right)
  THEN [test EXCEPT !.right = Reroot(test.right, cond)]
  ELSE [test EXCEPT !.right = [cond EXCEPT !.test = test.right]]

\* updateBinariesToAssignments of the assignment plugin
RECURSIVE updateBinariesToAssignments(_)
RECURSIVE updateEach(_)
updateEach(nodes) == [k \in 1..Len(nodes) |-> updateBinariesToAssignments(nodes[k])]
updateBinariesToAssignments(node) ==
  IF HasOperator(node)
  THEN IF node.operator \in assignmentOperators
       THEN [node EXCEPT !.type = "AssignmentExpression",
                         !.left = updateBinariesToAssignments(node.left),
                         !.right = updateBinariesToAssignments(node.right)]
       ELSE node
  ELSE CASE node.type = "ConditionalExpression" ->
              ConditionalNode(updateBinariesToAssignments(node.test),
                              updateBinariesToAssignments(node.consequent),
                              updateBinariesToAssignments(node.alternate))
         [] node.type = "MemberExpression" ->
              MemberNode(node.computed, updateBinariesToAssignments(node.object),
                         updateBinariesToAssignments(node.property))
         [] node.type = "Compound" -> [node EXCEPT !.body = updateEach(node.body)]
         [] node.type = "SequenceExpression" ->
              [node EXCEPT !.expressions = updateEach(node.expressions)]
         [] OTHER -> node

\* A faulty comparison: operators of equal precedence are not reduced
comparePrevStrict(biop_info, prev) == biop_info.prec < prev.prec

\* comparePrev of gobbleBinaryExpression
comparePrev(biop_info, prev) ==
  IF biop_info.right_a /\ prev.right_a THEN biop_info.prec > prev.prec
  ELSE biop_info.prec <= prev.prec

\* The inner while loop of gobbleBinaryExpression: the three topmost items of
\* the stack are made one node as long as the operator below the top binds
\* at least as tightly as the one just read.
RECURSIVE ReduceStack(_, _)
ReduceStack(stack, biop_info) ==
  IF Len(stack) > 2 /\ comparePrev(biop_info, stack[Len(stack) - 1])
  THEN ReduceStack(Append(SubSeq(stack, 1, Len(stack) - 3),
                          BinaryNode(stack[Len(stack) - 1].value, stack[Len(stack) - 2],
                                     stack[Len(stack)])),
                   biop_info)
  ELSE stack

\* The last loop of gobbleBinaryExpression: what is left on the stack is made
\* one node from the right.
RECURSIVE FoldStack(_, _)
FoldStack(stack, node) ==
  IF Len(stack) <= 1 THEN node
  ELSE FoldStack(SubSeq(stack, 1, Len(stack) - 2),
                 BinaryNode(stack[Len(stack)].value, stack[Len(stack) - 1], node))

biopInfo(biop) ==
  [value |-> biop, prec |-> binaryPrecedence(biop), right_a |-> biop \in right_associative]

\* the `while (tc_len > 0)` loop of gobbleToken: the longest unary operator
RECURSIVE LongestUnaryOp(_, _, _)
LongestUnaryOp(s, i, tc_len) ==
  IF tc_len = 0 THEN <<>>
  ELSE IF IsOperatorAt(s, i, Substr(s, i, tc_len), Substr(s, i, tc_len) \in unary_ops)
  THEN Substr(s, i, tc_len)
  ELSE LongestUnaryOp(s, i, tc_len - 1)

RECURSIVE gobbleExpression(_, _)
RECURSIVE gobbleExpressions(_, _, _, _)
RECURSIVE gobbleToken(_, _)
RECURSIVE gobbleTokenProperty(_, _, _)
RECURSIVE gobbleArguments(_, _, _, _)
RECURSIVE BinaryLoop(_, _, _)

ThrowArguments == [ok |-> FALSE, args |-> <<>>, index |-> 0]
\* Jsep.gobbleArguments(Jsep.CPAREN_CODE): the arguments of a call, from
\* index i0 on, args and separator_count being what the loop has so far
gobbleArguments(s, i0, args, separator_count) ==
  IF i0 >= Len(s) THEN ThrowArguments
  ELSE Let(gobbleSpaces(s, i0), LAMBDA i :
      IF CharAt(s, i) = ")"
      THEN (IF separator_count # 0 /\ separator_count >= Len(args) THEN ThrowArguments
            ELSE [ok |-> TRUE, args |-> args, index |-> i + 1])
      ELSE IF CharAt(s, i) = ","
      THEN (IF separator_count + 1 # Len(args) THEN ThrowArguments
            ELSE gobbleArguments(s, i + 1, args, separator_count + 1))
      ELSE IF Len(args) # separator_count /\ separator_count # 0
      THEN ThrowArguments
      ELSE Let(gobbleExpression(s, i), LAMBDA e :
               IF ~e.ok \/ e.node = NoNode THEN ThrowArguments
               ELSE gobbleArguments(s, e.index, Append(args, e.node), separator_count)))

\* Jsep.gobbleTokenProperty: the member accesses and the calls that follow
\* node
gobbleTokenProperty(node, s, i0) ==
  Let(gobbleSpaces(s, i0), LAMBDA i :
      IF CharAt(s, i) = "["
      THEN Let(gobbleExpression(s, i + 1), LAMBDA property :
               IF ~property.ok \/ property.node = NoNode THEN ThrowError
               ELSE Let(gobbleSpaces(s, property.index), LAMBDA j :
                        IF CharAt(s, j) # "]" THEN ThrowError
                        ELSE gobbleTokenProperty(MemberNode(TRUE, node, property.node),
                                                 s, j + 1)))
      ELSE IF CharAt(s, i) = "."
      THEN Let(gobbleIdentifier(s, gobbleSpaces(s, i + 1)), LAMBDA property :
               IF ~property.ok THEN ThrowError
               ELSE gobbleTokenProperty(MemberNode(FALSE, node, property.node),
                                        s, property.index))
      ELSE IF CharAt(s, i) = "("
      THEN Let(gobbleArguments(s, i + 1, <<>>, 0), LAMBDA a :
               IF ~a.ok THEN ThrowError
               ELSE gobbleTokenProperty(CallNode(a.args, node), s, a.index))
      ELSE IF CharAt(s, i) = "?" /\ CharAt(s, i + 1) = "."
      THEN ThrowError  \* `?.`: not modelled
      ELSE Gobbled(node, i))

\* Jsep.gobbleGroup: i is the index of the opening parenthesis
gobbleGroup(s, i) ==
  Let(gobbleExpressions(s, i + 1, ")", <<>>), LAMBDA g :
      IF ~g.ok \/ CharAt(s, g.index) # ")" THEN ThrowError
      ELSE IF Len(g.nodes) = 1 THEN Gobbled(g.nodes[1], g.index + 1)
      ELSE IF g.nodes = <<>> THEN Gobbled(NoNode, g.index + 1)
      ELSE Gobbled([type |-> "SequenceExpression", expressions |-> g.nodes], g.index + 1))

\* The name gobbleToken has read: a literal, this, or the identifier
NamedNode(node) ==
  IF isLiteral(node.name) THEN LiteralNode(literalValue(node.name), node.name)
  ELSE IF node.name = this_str THEN [type |-> "ThisExpression"]
  ELSE node

\* gobbleToken after its hooks found nothing: i is past the spaces
gobblePlainToken(s, i) ==
  IF isDecimalDigit(CharAt(s, i)) \/ CharAt(s, i) = "."
  THEN gobbleNumericLiteral(s, i)
  ELSE IF CharAt(s, i) \in {"'", "\""}
  THEN Let(gobbleStringLiteral(s, i), LAMBDA t :
           IF ~t.ok THEN ThrowError
           ELSE gobbleUpdatePostfix(s, gobbleTokenProperty(t.node, s, t.index)))
  ELSE Let(LongestUnaryOp(s, i, Min(max_unop_len, Len(s) - i)), LAMBDA op :
           IF op # <<>>
           THEN Let(gobbleToken(s, i + Len(op)), LAMBDA argument :
                    IF ~argument.ok \/ argument.node = NoNode THEN ThrowError
                    ELSE gobbleUpdatePostfix(s, Gobbled(UnaryNode(op, argument.node),
                                                        argument.index)))
           ELSE IF isIdentifierStart(CharAt(s, i))
           THEN Let(gobbleIdentifier(s, i), LAMBDA t :
                    gobbleUpdatePostfix(s, gobbleTokenProperty(NamedNode(t.node), s, t.index)))
           ELSE IF CharAt(s, i) = "("
           THEN Let(gobbleGroup(s, i), LAMBDA t :
                    IF ~t.ok THEN ThrowError
                    ELSE IF t.node = NoNode THEN t
                    ELSE gobbleUpdatePostfix(s, gobbleTokenProperty(t.node, s, t.index)))
           ELSE Gobbled(NoNode, i))

\* Jsep.gobbleToken, with the gobble-token hook of the assignment plugin
\* (gobbleUpdatePrefix) tried first
gobbleToken(s, i0) ==
  Let(gobbleSpaces(s, i0), LAMBDA i :
      IF IsUpdateOperatorAt(s, i)
      THEN Let(gobbleIdentifier(s, i + 2), LAMBDA t :
               IF ~t.ok THEN ThrowError
               ELSE Let(gobbleTokenProperty(t.node, s, t.index), LAMBDA argument :
                        IF ~argument.ok THEN ThrowError
                        ELSE gobbleUpdatePostfix(s,
                               Gobbled(UpdateNode(<<CharAt(s, i), CharAt(s, i)>>,
                                                  argument.node, TRUE),
                                       argument.index))))
      ELSE gobblePlainToken(s, i))

\* The while loop of gobbleBinaryExpression: operators and operands are read
\* onto the stack until no operator follows.
BinaryLoop(s, i, stack) ==
  Let(gobbleBinaryOp(s, i), LAMBDA bo :
      IF bo.op = <<>>
      THEN Gobbled(FoldStack(SubSeq(stack, 1, Len(stack) - 1), stack[Len(stack)]), bo.index)
      ELSE Let(gobbleToken(s, bo.index), LAMBDA t :
               IF ~t.ok \/ t.node = NoNode THEN ThrowError
               ELSE BinaryLoop(s, t.index,
                               ReduceStack(stack, biopInfo(bo.op))
                                 \o <<biopInfo(bo.op), t.node>>)))

\* Jsep.gobbleBinaryExpression
gobbleBinaryExpression(s, i) ==
  Let(gobbleToken(s, i), LAMBDA left :
      IF ~left.ok \/ left.node = NoNode THEN left
      ELSE Let(gobbleBinaryOp(s, left.index), LAMBDA bo :
               IF bo.op = <<>> THEN Gobbled(left.node, bo.index)
               ELSE Let(gobbleToken(s, bo.index), LAMBDA right :
                        IF ~right.ok \/ right.node = NoNode THEN ThrowError
                        ELSE BinaryLoop(s, right.index,
                                        <<left.node, biopInfo(bo.op), right.node>>))))

\* The after-expression hook of the ternary plugin (gobbleTernary), run on
\* the expression r that ends at r.index
gobbleTernary(s, r) ==
  IF ~r.ok \/ r.node = NoNode \/ CharAt(s, r.index) # "?" THEN r
  ELSE Let(gobbleExpression(s, r.index + 1), LAMBDA consequent :
           IF ~consequent.ok \/ consequent.node = NoNode THEN ThrowError
           ELSE Let(gobbleSpaces(s, consequent.index), LAMBDA j :
                    IF CharAt(s, j) # ":" THEN ThrowError
                    ELSE Let(gobbleExpression(s, j + 1), LAMBDA alternate :
                             IF ~alternate.ok \/ alternate.node = NoNode THEN ThrowError
                             ELSE Let(ConditionalNode(r.node, consequent.node, alternate.node),
                                      LAMBDA cond :
                                        IF IsAssignmentLevel(r.node)
                                        THEN Gobbled(Reroot(r.node, cond), alternate.index)
                                        ELSE Gobbled(cond, alternate.index)))))

\* The after-expression hook of the assignment plugin (gobbleAssignment)
gobbleAssignment(r) ==
  IF ~r.ok \/ r.node = NoNode THEN r
  ELSE Gobbled(updateBinariesToAssignments(r.node), r.index)

\* Jsep.gobbleExpression: a binary expression, the spaces after it, then the
\* after-expression hooks in the order the plugins were registered
gobbleExpression(s, i) ==
  Let(gobbleBinaryExpression(s, i), LAMBDA b :
      IF ~b.ok THEN ThrowError
      ELSE gobbleAssignment(gobbleTernary(s, Gobbled(b.node, gobbleSpaces(s, b.index)))))

\* Jsep.gobbleExpressions: [ok, nodes, index]
gobbleExpressions(s, i, untilChar, nodes) ==
  IF i >= Len(s) THEN [ok |-> TRUE, nodes |-> nodes, index |-> i]
  ELSE IF CharAt(s, i) \in {";", ","} THEN gobbleExpressions(s, i + 1, untilChar, nodes)
  ELSE Let(gobbleExpression(s, i), LAMBDA e :
           IF ~e.ok THEN [ok |-> FALSE, nodes |-> <<>>, index |-> 0]
           ELSE IF e.node # NoNode
           THEN gobbleExpressions(s, e.index, untilChar, Append(nodes, e.node))
           ELSE IF e.index < Len(s)
           THEN IF CharAt(s, i) = untilChar
                THEN [ok |-> TRUE, nodes |-> nodes, index |-> e.index]
                ELSE [ok |-> FALSE, nodes |-> <<>>, index |-> 0]
           ELSE gobbleExpressions(s, e.index, untilChar, nodes))

\* Jsep.parse: [ok, node]
parse(s) ==
  Let(gobbleExpressions(s, 0, "none", <<>>), LAMBDA g :
      IF ~g.ok THEN [ok |-> FALSE, node |-> NoNode]
      ELSE IF Len(g.nodes) = 1 THEN [ok |-> TRUE, node |-> g.nodes[1]]
      ELSE [ok |-> TRUE, node |-> [type |-> "Compound", body |-> g.nodes]])

(***************************************************************************)
(* The safe evaluator (SafeEval, SafeScript)                               *)
(*                                                                         *)
(* A number is held exactly: an integer as Num(n), any other quotient as a *)
(* reduced fraction; the rounding a double applies to a quotient and the   *)
(* sign of zero are not modelled.  A value the model does not compute      *)
(* (bitwise operators, comparisons of values of different types, the       *)
(* arithmetic of values that are not numbers) is the value Unmodelled; the *)
(* evaluated texts contain none.  Array literals and calls, which the      *)
(* parser above does not read, have no case in evalAst.                    *)
(***************************************************************************)
NaN == [t |-> "nan"]
Infinity(neg) == [t |-> "inf", neg |-> neg]
Unmodelled == [t |-> "unmodelled"]
\* what a property found on the prototype chain yields
Inherited(name) == [t |-> "inherited", name |-> name]

RECURSIVE Gcd(_, _)
Gcd(a, b) == IF b = 0 THEN a ELSE Gcd(b, a % b)
Abs(n) == IF n < 0 THEN -n ELSE n
\* the number n / d, d # 0
Frac(n, d) ==
  Let(Gcd(Abs(n), Abs(d)), LAMBDA g :
      IF Abs(d) = g THEN Num(IF d < 0 THEN -(n \div g) ELSE n \div g)
      ELSE [t |-> "frac", n |-> (IF d < 0 THEN -(n \div g) ELSE n \div g),
            d |-> Abs(d) \div g])
IsFiniteNumber(v) == v.t \in {"num", "frac"}
IsNumber(v) == v.t \in {"num", "frac", "inf", "nan"}
Numer(v) == v.n
Denom(v) == IF v.t = "frac" THEN v.d ELSE 1
IsZero(v) == v.t = "num" /\ v.n = 0
IsNegative(v) == IF v.t = "inf" THEN v.neg ELSE Numer(v) < 0
\* the integer part of n / d, d > 0
Trunc(n, d) == IF n < 0 THEN -((-n) \div d) ELSE n \div d

\* a op b for two finite numbers
FiniteArith(op, a, b) ==
  CASE op = <<"+">> -> Frac(Numer(a) * Denom(b) + Numer(b) * Denom(a), Denom(a) * Denom(b))
    [] op = <<"-">> -> Frac(Numer(a) * Denom(b) - Numer(b) * Denom(a), Denom(a) * Denom(b))
    [] op = <<"*">> -> Frac(Numer(a) * Numer(b), Denom(a) * Denom(b))
    [] op = <<"/">> -> IF IsZero(b)
                     THEN (IF IsZero(a) THEN NaN ELSE Infinity(IsNegative(a)))
                     ELSE Frac(Numer(a) * Denom(b), Denom(a) * Numer(b))
    [] op = <<"%">> -> IF IsZero(b) THEN NaN
                     ELSE Let(Trunc(Numer(a) * Denom(b), Denom(a) * Abs(Numer(b))),
                              LAMBDA q : Frac(Numer(a) * Denom(b)
                                                - q * Abs(Numer(b)) * Denom(a),
                                              Denom(a) * Denom(b)))

\* a op b where one of the two is an infinity and neither is NaN
InfiniteArith(op, a, b) ==
  CASE op = <<"+">> -> IF a.t = "inf" /\ b.t = "inf" /\ a.neg # b.neg THEN NaN
                     ELSE IF a.t = "inf" THEN a ELSE b
    [] op = <<"-">> -> IF a.t = "inf" /\ b.t = "inf" /\ a.neg = b.neg THEN NaN
                     ELSE IF a.t = "inf" THEN a ELSE Infinity(~b.neg)
    [] op = <<"*">> -> IF IsZero(a) \/ IsZero(b) THEN NaN
                     ELSE Infinity(IsNegative(a) # IsNegative(b))
    [] op = <<"/">> -> IF a.t = "inf" /\ b.t = "inf" THEN NaN
                     ELSE IF a.t = "inf" THEN Infinity(IsNegative(a) # IsNegative(b))
                     ELSE Num(0)
    [] op = <<"%">> -> IF a.t = "inf" THEN NaN ELSE a

ArithmeticOperators == {<<"+">>, <<"-">>, <<"*">>, <<"/">>, <<"%">>}
\* String(v) for the values used as property names
ToStringValue(v) ==
  CASE v.t = "str" -> v.s
    [] v.t = "num" -> IF v.n < 0 THEN <<"-">> \o NumToChars(-v.n) ELSE NumToChars(v.n)
    [] v.t = "bool" -> IF v.b THEN <<"t", "r", "u", "e">> ELSE <<"f", "a", "l", "s", "e">>
    [] v.t = "null" -> <<"n", "u", "l", "l">>
    [] v.t = "undefined" -> <<"u", "n", "d", "e", "f", "i", "n", "e", "d">>
    [] OTHER -> <<"[", "o", "b", "j", "e", "c", "t", " ", "O", "b", "j", "e", "c", "t", "]">>

\* a op b for an arithmetic operator
Arith(op, a, b) ==
  IF op = <<"+">> /\ (a.t = "str" \/ b.t = "str")
       /\ {a.t, b.t} \subseteq {"str", "num", "bool", "null", "undefined"}
  THEN Str(ToStringValue(a) \o ToStringValue(b))
  ELSE IF ~IsNumber(a) \/ ~IsNumber(b) THEN Unmodelled
  ELSE IF a.t = "nan" \/ b.t = "nan" THEN NaN
  ELSE IF IsFiniteNumber(a) /\ IsFiniteNumber(b) THEN FiniteArith(op, a, b)
  ELSE InfiniteArith(op, a, b)

\* a < b for two finite numbers
LessThan(a, b) == Numer(a) * Denom(b) < Numer(b) * Denom(a)
\* a === b for primitive values
StrictEquals(a, b) ==
  IF a.t \in {"obj", "arr", "inherited", "fn", "unmodelled"}
       \/ b.t \in {"obj", "arr", "inherited", "fn", "unmodelled"}
  THEN Unmodelled
  ELSE Bool(a.t # "nan" /\ a = b)

Not(v) == IF v.t = "bool" THEN Bool(~v.b) ELSE v

\* the operators of the table in evalBinaryExpression
BinaryTable ==
  {<<"|", "|">>, <<"&", "&">>, <<"|">>, <<"^">>, <<"&">>, <<"=", "=">>, <<"!", "=">>, <<"=",
      "=", "=">>, <<"!", "=", "=">>, <<"<">>, <<">">>,
   <<"<", "=">>, <<">", "=">>, <<"<", "<">>, <<">", ">">>, <<">", ">",
       ">">>, <<"+">>, <<"-">>, <<"*">>, <<"/">>, <<"%">>}

\* what the table's function of op gives for the operand values a and b,
\* for the operators that evaluate both operands
ApplyBinary(op, a, b) ==
  CASE op \in ArithmeticOperators -> Arith(op, a, b)
    [] op \in {<<"=", "=", "=">>, <<"=", "=">>} ->
         IF a.t = b.t \/ op = <<"=", "=", "=">> THEN StrictEquals(a, b)
         ELSE IF {a.t, b.t} = {"null", "undefined"} THEN Bool(TRUE)
         ELSE IF {a.t, b.t} \cap {"null", "undefined"} # {} THEN Bool(FALSE)
         ELSE Unmodelled
    [] op \in {<<"!", "=", "=">>, <<"!", "=">>} ->
         IF a.t = b.t \/ op = <<"!", "=", "=">> THEN Not(StrictEquals(a, b))
         ELSE IF {a.t, b.t} = {"null", "undefined"} THEN Bool(FALSE)
         ELSE IF {a.t, b.t} \cap {"null", "undefined"} # {} THEN Bool(TRUE)
         ELSE Unmodelled
    [] op \in {<<"<">>, <<">">>, <<"<", "=">>, <<">", "=">>} ->
         IF {a.t, b.t} \subseteq {"num", "frac", "undefined", "nan"}
              /\ {a.t, b.t} \cap {"undefined", "nan"} # {}
         THEN Bool(FALSE)
         ELSE IF ~IsFiniteNumber(a) \/ ~IsFiniteNumber(b) THEN Unmodelled
         ELSE Bool(CASE op = <<"<">> -> LessThan(a, b)
                     [] op = <<">">> -> LessThan(b, a)
                     [] op = <<"<", "=">> -> ~LessThan(b, a)
                     [] op = <<">", "=">> -> ~LessThan(a, b))
    [] OTHER -> Unmodelled

\* typeof v
TypeOf(v) ==
  CASE v.t = "str" -> <<"s", "t", "r", "i", "n", "g">>
    [] IsNumber(v) -> <<"n", "u", "m", "b", "e", "r">>
    [] v.t = "bool" -> <<"b", "o", "o", "l", "e", "a", "n">>
    [] v.t = "undefined" -> <<"u", "n", "d", "e", "f", "i", "n", "e", "d">>
    [] v.t \in {"inherited", "fn"} -> <<"f", "u", "n", "c", "t", "i", "o", "n">>
    [] OTHER -> <<"o", "b", "j", "e", "c", "t">>

\* what the table's function of op in evalUnaryExpression gives for a
ApplyUnary(op, a) ==
  CASE op = <<"!">> -> Bool(~Truthy(a))
    [] op = <<"t", "y", "p", "e", "o", "f">> -> Str(TypeOf(a))
    [] op = <<"-">> -> IF IsFiniteNumber(a) THEN Frac(-Numer(a), Denom(a))
                     ELSE IF a.t = "inf" THEN Infinity(~a.neg)
                     ELSE IF a.t = "nan" THEN NaN ELSE Unmodelled
    [] op = <<"+">> -> IF IsNumber(a) THEN a ELSE Unmodelled
    [] op = <<"~">> -> IF a.t = "num" THEN Num(-(a.n + 1)) ELSE Unmodelled

BLOCKED_PROTO_PROPERTIES ==
  {<<"c", "o", "n", "s", "t", "r", "u", "c", "t", "o", "r">>, <<"_", "_", "p", "r", "o", "t",
      "o", "_", "_">>, <<"_", "_", "d", "e", "f", "i", "n", "e", "G", "e", "t", "t", "e", "r",
      "_", "_">>, <<"_", "_", "d", "e", "f", "i", "n", "e", "S", "e", "t", "t", "e", "r", "_",
      "_">>}
\* Names every object has by inheritance from Object.prototype, the blocked
\* ones among them
InheritedNames ==
  {<<"c", "o", "n", "s", "t", "r", "u", "c", "t", "o", "r">>, <<"_", "_", "p", "r", "o", "t",
      "o", "_", "_">>, <<"_", "_", "d", "e", "f", "i", "n", "e", "G", "e", "t", "t", "e", "r",
      "_", "_">>, <<"_", "_", "d", "e", "f", "i", "n", "e", "S", "e", "t", "t", "e", "r", "_",
      "_">>,
   <<"t", "o", "S", "t", "r", "i", "n", "g">>, <<"h", "a", "s", "O", "w", "n", "P", "r", "o",
       "p", "e", "r", "t", "y">>}
\* obj[prop] for an obj that is neither undefined nor null
GetProp(obj, prop) ==
  IF HasOwn(obj, prop) THEN GetOwn(obj, prop)
  ELSE IF prop \in InheritedNames THEN Inherited(prop)
  ELSE Undefined

\* What an evaluation gives: the value returned or the error thrown, and the
\* substitutions (keyMap) as the evaluation left them
Yielded(value, subs) == [threw |-> FALSE, error |-> "", value |-> value, subs |-> subs]
Raised(error, subs) == [threw |-> TRUE, error |-> error, value |-> Undefined, subs |-> subs]

RECURSIVE evalAst(_, _)
RECURSIVE evalCompound(_, _, _, _)
RECURSIVE evalArguments(_, _, _, _)

\* A function of the host that the bindings hold, known by a word
Fn(name) == [t |-> "fn", name |-> name]
\* func(...args) for the functions of the model: the one that returns its
\* first argument and the one that returns its last; what an inherited
\* method returns is left open, and a value that is no function cannot be
\* called
CallFunction(func, args, subs) ==
  CASE func.t = "fn" /\ func.name = "first" ->
         Yielded(IF args = <<>> THEN Undefined ELSE args[1], subs)
    [] func.t = "fn" /\ func.name = "last" ->
         Yielded(IF args = <<>> THEN Undefined ELSE args[Len(args)], subs)
    [] func.t = "inherited" -> Yielded(Unmodelled, subs)
    [] OTHER -> Raised("TypeError", subs)

\* ast.arguments.map(arg => SafeEval.evalAst(arg, subs)) from the i-th
\* argument on: the values in order, or the first error
evalArguments(arguments, i, values, subs) ==
  IF i > Len(arguments) THEN Yielded(Arr(values), subs)
  ELSE Let(evalAst(arguments[i], subs), LAMBDA arg :
           IF arg.threw THEN arg
           ELSE evalArguments(arguments, i + 1, Append(values, arg.value), arg.subs))

\* SafeEval.evalCallExpression: the arguments are evaluated, then the
\* callee, then the callee is invoked
evalCallExpression(ast, subs) ==
  Let(evalArguments(ast.arguments, 1, <<>>, subs), LAMBDA args :
      IF args.threw THEN args
      ELSE Let(evalAst(ast.callee, args.subs), LAMBDA func :
               IF func.threw THEN func
               ELSE CallFunction(func.value, args.value.items, func.subs)))


\* A faulty evaluation: the right operand of || and && is evaluated always
evalBinaryExpressionEager(ast, subs) ==
  Let(evalAst(ast.left, subs), LAMBDA left :
      IF left.threw THEN left
      ELSE IF ast.operator \notin BinaryTable THEN Raised("TypeError", left.subs)
      ELSE Let(evalAst(ast.right, left.subs), LAMBDA right :
               IF right.threw THEN right
               ELSE IF ast.operator = <<"|", "|">>
               THEN Yielded(IF Truthy(left.value) THEN left.value ELSE right.value,
                            right.subs)
               ELSE IF ast.operator = <<"&", "&">>
               THEN Yielded(IF Truthy(left.value) THEN right.value ELSE left.value,
                            right.subs)
               ELSE Yielded(ApplyBinary(ast.operator, left.value, right.value),
                             right.subs)))

\* SafeEval.evalBinaryExpression: the left operand is evaluated before the
\* table's function is called, so an operator the table lacks is a type error
\* raised after it; || and && evaluate the right operand only when needed.
evalBinaryExpression(ast, subs) ==
  Let(evalAst(ast.left, subs), LAMBDA left :
      IF left.threw THEN left
      ELSE IF ast.operator \notin BinaryTable THEN Raised("TypeError", left.subs)
      ELSE IF ast.operator = <<"|", "|">>
      THEN (IF Truthy(left.value) THEN left ELSE evalAst(ast.right, left.subs))
      ELSE IF ast.operator = <<"&", "&">>
      THEN (IF Truthy(left.value) THEN evalAst(ast.right, left.subs) ELSE left)
      ELSE Let(evalAst(ast.right, left.subs), LAMBDA right :
               IF right.threw THEN right
               ELSE Yielded(ApplyBinary(ast.operator, left.value, right.value),
                             right.subs)))

\* the declaration keywords evalCompound steps over
DeclarationWords == {<<"v", "a", "r">>, <<"l", "e", "t">>, <<"c", "o", "n", "s", "t">>}
\* SafeEval.evalCompound from body[i] on (i counts from 1)
evalCompound(body, i, last, subs) ==
  IF i > Len(body) THEN Yielded(last, subs)
  ELSE Let(IF /\ body[i].type = "Identifier"
              /\ body[i].name \in DeclarationWords
              /\ i + 1 <= Len(body)
              /\ body[i + 1].type = "AssignmentExpression"
           THEN i + 1 ELSE i,
           LAMBDA j :
             Let(evalAst(body[j], subs), LAMBDA r :
                 IF r.threw THEN r ELSE evalCompound(body, j + 1, r.value, r.subs)))

\* SafeEval.evalConditionalExpression
evalConditionalExpression(ast, subs) ==
  Let(evalAst(ast.test, subs), LAMBDA test :
      IF test.threw THEN test
      ELSE IF Truthy(test.value) THEN evalAst(ast.consequent, test.subs)
      ELSE evalAst(ast.alternate, test.subs))

\* SafeEval.evalIdentifier; Object.hasOwn of undefined is a type error
evalIdentifier(ast, subs) ==
  IF subs.t = "undefined" THEN Raised("TypeError", subs)
  ELSE IF HasOwn(subs, ast.name) THEN Yielded(GetOwn(subs, ast.name), subs)
  ELSE Raised("ReferenceError", subs)

\* SafeEval.evalMemberExpression: a computed property is evaluated without
\* the substitutions, before the object
evalMemberExpression(ast, subs) ==
  Let(IF ast.computed THEN evalAst(ast.property, Undefined)
      ELSE Yielded(Str(ast.property.name), subs),
      LAMBDA prop :
        IF prop.threw THEN Raised(prop.error, subs)
        ELSE Let(evalAst(ast.object, subs), LAMBDA obj :
                 IF obj.threw THEN obj
                 ELSE IF obj.value.t \in {"undefined", "null"}
                 THEN Raised("TypeError", obj.subs)
                 ELSE IF /\ ~HasOwn(obj.value, ToStringValue(prop.value))
                         /\ ToStringValue(prop.value) \in BLOCKED_PROTO_PROPERTIES
                 THEN Raised("TypeError", obj.subs)
                 ELSE Yielded(GetProp(obj.value, ToStringValue(prop.value)), obj.subs)))

\* SafeEval.evalUnaryExpression
evalUnaryExpression(ast, subs) ==
  Let(evalAst(ast.argument, subs), LAMBDA a :
      IF a.threw THEN a ELSE Yielded(ApplyUnary(ast.operator, a.value), a.subs))

\* SafeEval.evalAssignmentExpression: whatever the operator, the value of the
\* right side is stored under the name on the left
evalAssignmentExpression(ast, subs) ==
  IF ast.left.type # "Identifier" THEN Raised("SyntaxError", subs)
  ELSE Let(evalAst(ast.right, subs), LAMBDA value :
           IF value.threw THEN value
           ELSE IF value.subs.t = "undefined" THEN Raised("TypeError", value.subs)
           ELSE Yielded(value.value, ObjPut(value.subs, ast.left.name, value.value)))

\* SafeEval.evalAst
evalAst(ast, subs) ==
  CASE ast.type \in {"BinaryExpression", "LogicalExpression"} ->
         evalBinaryExpression(ast, subs)
    [] ast.type = "Compound" -> evalCompound(ast.body, 1, Undefined, subs)
    [] ast.type = "ConditionalExpression" -> evalConditionalExpression(ast, subs)
    [] ast.type = "Identifier" -> evalIdentifier(ast, subs)
    [] ast.type = "Literal" -> Yielded(ast.value, subs)
    [] ast.type = "MemberExpression" -> evalMemberExpression(ast, subs)
    [] ast.type = "UnaryExpression" -> evalUnaryExpression(ast, subs)
    [] ast.type = "CallExpression" -> evalCallExpression(ast, subs)
    [] ast.type = "AssignmentExpression" -> evalAssignmentExpression(ast, subs)
    [] OTHER -> Raised("SyntaxError", subs)

(***************************************************************************)
(* JSONPath: tracing, continued (_trace, _slice, _eval, evaluate)         *)
(***************************************************************************)
\* The keys _walk hands to its callback, in its order: the indices of an
\* array as numbers, the keys of an object as strings
WalkKeys(val) ==
  CASE val.t = "arr" -> [i \in 1..Len(val.items) |-> Num(i - 1)]
    [] val.t = "obj" -> [i \in 1..Len(val.kv) |-> Str(val.kv[i][1])]
    [] OTHER -> <<>>

\* Where a trace stands: the path that led to val, the value that holds val
\* and the key it holds it under
RootAt == [path |-> <<Str(<<"$">>)>>, parent |-> Null, parentProperty |-> Null]
ChildAt(at, val, key) ==
  [path |-> Append(at.path, key), parent |-> val, parentProperty |-> key]

\* String.prototype.replaceAll(pat, rep) for a pattern that is a text
RECURSIVE ReplaceAll(_, _, _)
ReplaceAll(s, pat, rep) ==
  IF Len(s) < Len(pat) THEN s
  ELSE IF SubSeq(s, 1, Len(pat)) = pat
  THEN rep \o ReplaceAll(SubSeq(s, Len(pat) + 1, Len(s)), pat, rep)
  ELSE <<Head(s)>> \o ReplaceAll(Tail(s), pat, rep)

\* .replaceAll(/@([.\s)[])/gu, '_$_v$1')
RECURSIVE ReplaceCurrent(_)
ReplaceCurrent(s) ==
  IF s = <<>> THEN <<>>
  ELSE IF Head(s) = "@" /\ Len(s) >= 2 /\ s[2] \in {".", " ", ")", "["}
  THEN <<"_", "$", "_", "v">> \o ReplaceCurrent(Tail(s))
  ELSE <<Head(s)>> \o ReplaceCurrent(Tail(s))

\* the script _eval compiles for code (a code of the model holds no `@path`)
ScriptText(code) ==
  ReplaceCurrent(
    ReplaceAll(
      ReplaceAll(
        ReplaceAll(
          ReplaceAll(code, <<"@", "p", "a", "r", "e", "n", "t", "P", "r", "o", "p", "e", "r",
              "t", "y">>, <<"_", "$", "_", "p", "a", "r", "e", "n", "t", "P", "r", "o", "p",
              "e", "r", "t", "y">>),
          <<"@", "p", "a", "r", "e", "n", "t">>, <<"_", "$", "_", "p", "a", "r", "e", "n",
              "t">>),
        <<"@", "p", "r", "o", "p", "e", "r", "t", "y">>, <<"_", "$", "_", "p", "r", "o", "p",
            "e", "r", "t", "y">>),
      <<"@", "r", "o", "o", "t">>, <<"_", "$", "_", "r", "o", "o", "t">>))

\* this.currEval + 'Script:' + code
scriptCacheKey(currEval, code) == ToStringValue(currEval) \o <<"S", "c", "r", "i", "p", "t",
    ":">> \o code

\* new SafeScript(expr): the object holds the text and its syntax tree
SafeScript(expr, ast) == [code |-> expr, ast |-> ast]

\* SafeScript.runInNewContext: keyMap is a copy of context, and it is keyMap
\* that the assignments of the expression change
runInNewContext(script, context) == evalAst(script.ast, context)

\* the five assignments that open _eval
SandboxFor(sandbox, v, vname, parent, parentPropName, root) ==
  ObjPut(ObjPut(ObjPut(ObjPut(ObjPut(sandbox,
    <<"_", "$", "_", "p", "a", "r", "e", "n", "t", "P", "r", "o", "p", "e", "r", "t",
        "y">>, parentPropName),
    <<"_", "$", "_", "p", "a", "r", "e", "n", "t">>, parent),
    <<"_", "$", "_", "p", "r", "o", "p", "e", "r", "t", "y">>, vname),
    <<"_", "$", "_", "r", "o", "o", "t">>, root),
    <<"_", "$", "_", "v">>, v)

\* the values of the eval option for which _eval builds a SafeScript
SafeModes == {Str(<<"s", "a", "f", "e">>), Bool(TRUE), Undefined}

\* What the engine changes while it traces: JSONPath.cache and the object
\* this.currSandbox names; built lists the keys under which a script was
\* built and stored, in order
EngineState(cache, sandbox, built) == [cache |-> cache, sandbox |-> sandbox, built |-> built]

\* A faulty test: evaluation is never taken to be disabled
EvalDisabledNever(currEval) == FALSE
\* this.currEval === false
EvalDisabled(currEval) == currEval = Bool(FALSE)
EvalPreventedFilter == "Eval [?(expr)] prevented in JSONPath expression."
EvalPreventedScript == "Eval [(expr)] prevented in JSONPath expression."

\* A faulty test: the script is never found in the cache
HasScriptNever(cache, key) == FALSE
\* JSONPath.cache[scriptCacheKey], as a condition
HasScript(cache, key) == key \in DOMAIN cache

\* JSONPath.prototype._eval: [threw, error, value, st].  The sandbox is
\* written first; the script is compiled and stored when the cache holds
\* none under the key (a text that does not parse throws out of the
\* constructor and nothing is stored); an error of the evaluation is
\* rethrown as Error('jsonPath: ...') unless ignoreEvalErrors is set.
_eval(code, v, vname, parent, parentPropName, env, st) ==
  Let(SandboxFor(st.sandbox, v, vname, parent, parentPropName, env.root), LAMBDA sandbox :
  Let(scriptCacheKey(env.eval, code), LAMBDA key :
    IF ~HasScript(st.cache, key) /\ env.eval \notin SafeModes
    THEN [threw |-> TRUE, error |-> "TypeError: Unknown \"eval\" property", value |-> Undefined,
          st |-> [st EXCEPT !.sandbox = sandbox]]
    ELSE Let(IF HasScript(st.cache, key) THEN [ok |-> TRUE, node |-> st.cache[key].ast]
             ELSE parse(ScriptText(code)),
             LAMBDA parsed :
      IF ~parsed.ok
      THEN [threw |-> TRUE, error |-> "jsep: parse error", value |-> Undefined,
            st |-> [st EXCEPT !.sandbox = sandbox]]
      ELSE Let(IF HasScript(st.cache, key) THEN [st EXCEPT !.sandbox = sandbox]
               ELSE EngineState(CachePut(st.cache, key,
                                         SafeScript(ScriptText(code), parsed.node)),
                                sandbox, Append(st.built, key)),
               LAMBDA st2 :
           Let(runInNewContext(st2.cache[key], sandbox), LAMBDA r :
             IF ~r.threw
             THEN [threw |-> FALSE, error |-> "", value |-> r.value, st |-> st2]
             ELSE IF env.ignoreEvalErrors
             THEN [threw |-> FALSE, error |-> "", value |-> Bool(FALSE), st |-> st2]
             ELSE [threw |-> TRUE, error |-> "Error: jsonPath: evaluation failed",
                   value |-> Undefined, st |-> st2])))))

\* loc.replace(/^\?\((.*?)\)$/u, '$1') for a loc that starts with `?(`
SafeLoc(loc) ==
  IF loc[Len(loc)] = ")" THEN SubSeq(loc, 3, Len(loc) - 1) ELSE loc

IsFilter(loc) == Len(loc) >= 2 /\ loc[1] = "?" /\ loc[2] = "("
IsScript(loc) == loc # <<>> /\ loc[1] = "("

\* A trace either throws or gives the matches in order, each with its value
\* and its hasArrExpr flag (undefined counts as false); either way it leaves
\* the engine in the state st.
Matches(res, st) == [threw |-> FALSE, error |-> "", res |-> res, st |-> st]
Thrown(error, st) == [threw |-> TRUE, error |-> error, res |-> <<>>, st |-> st]
\* addRet of a first trace and then of a second, which starts in the state
\* the first has left
TraceCat(a, Second(_)) ==
  IF a.threw THEN a
  ELSE Let(Second(a.st), LAMBDA b :
           IF b.threw THEN b ELSE Matches(a.res \o b.res, b.st))

\* How _walk's callback treats a child: traced with or without literal
\* priority, only if its typeof is 'object', only if the filter holds of it
Walk(literalPriority, objectsOnly, filter) ==
  [literalPriority |-> literalPriority, objectsOnly |-> objectsOnly,
   filtered |-> filter # <<>>, code |-> filter]

RECURSIVE _trace(_, _, _, _, _, _, _)
RECURSIVE TraceChildren(_, _, _, _, _, _, _)
\* this._walk(val, m => ...): the traces of expr from the children of val, in
\* _walk's order from the k-th on, concatenated
TraceChildren(expr, val, k, at, how, env, st) ==
  IF k > Len(WalkChildren(val)) THEN Matches(<<>>, st)
  ELSE Let(WalkChildren(val)[k], LAMBDA kid :
       Let(WalkKeys(val)[k], LAMBDA m :
         TraceCat(
           IF how.objectsOnly /\ ~TypeofObject(kid) THEN Matches(<<>>, st)
           ELSE IF how.filtered
           THEN Let(_eval(how.code, kid, m, at.parent, at.parentProperty, env, st),
                    LAMBDA e :
                      IF e.threw THEN Thrown(e.error, e.st)
                      ELSE IF Truthy(e.value)
                      THEN _trace(expr, kid, ChildAt(at, val, m), TRUE, FALSE, env, e.st)
                      ELSE Matches(<<>>, e.st))
           ELSE _trace(expr, kid, ChildAt(at, val, m), TRUE, how.literalPriority, env, st),
           LAMBDA st2 : TraceChildren(expr, val, k + 1, at, how, env, st2))))

RECURSIVE SliceEach(_, _, _, _, _, _, _)
\* the loop of _slice over the indices idx from the k-th on: each index is
\* handed to _trace as a number, which the array owns, so that _trace follows
\* it directly, with hasArrExpr true
SliceEach(expr, val, idx, k, at, env, st) ==
  IF k > Len(idx) THEN Matches(<<>>, st)
  ELSE TraceCat(_trace(expr, val.items[idx[k] + 1], ChildAt(at, val, Num(idx[k])),
                       TRUE, FALSE, env, st),
                LAMBDA st2 : SliceEach(expr, val, idx, k + 1, at, env, st2))

\* JSONPath.prototype._slice: nothing for a value that is no array
_slice(loc, expr, val, at, env, st) ==
  IF val.t # "arr" THEN Matches(<<>>, st)
  ELSE SliceEach(expr, val, _sliceIndices(loc, Len(val.items)), 1, at, env, st)

\* _trace(unshift(loc, x), ...) for the loc a script segment has computed.
\* A string is traced as a segment of the path.  A value that is no string is
\* followed when val owns a property of that name, and else reaches
\* loc.indexOf, which a number, a boolean, undefined and null do not have.
TraceComputed(loc, x, val, at, hasArrExpr, env, st) ==
  IF loc.t = "str" THEN _trace(<<loc.s>> \o x, val, at, hasArrExpr, FALSE, env, st)
  ELSE IF Truthy(val) /\ loc.t \in {"num", "bool", "null", "undefined"}
          /\ HasOwn(val, ToStringValue(loc))
  THEN _trace(x, GetOwn(val, ToStringValue(loc)), ChildAt(at, val, loc),
              hasArrExpr, FALSE, env, st)
  ELSE Thrown("TypeError: loc.indexOf is not a function", st)

\* JSONPath.prototype._trace for the segments a path of the model can hold:
\* a property name, `*`, `..`, `$`, a slice, a filter `?(...)`, a script
\* `(...)` and a segment starting with `@`.  (A filter of the model holds no
\* bracket and no quote, so that it holds no nested filter.)
_trace(expr, val, at, hasArrExpr, literalPriority, env, st) ==
  IF expr = <<>> THEN Matches(<<[value |-> val, hasArrExpr |-> hasArrExpr]>>, st)
  ELSE LET loc == Head(expr)
           x == Tail(expr)
       IN IF literalPriority /\ Truthy(val) /\ HasOwn(val, loc)
          THEN _trace(x, GetOwn(val, loc), ChildAt(at, val, Str(loc)), hasArrExpr, FALSE,
                      env, st)
          ELSE IF loc = <<"*">>
          THEN TraceChildren(x, val, 1, at, Walk(TRUE, FALSE, <<>>), env, st)
          ELSE IF loc = <<".", ".">>
          THEN TraceCat(_trace(x, val, at, hasArrExpr, FALSE, env, st),
                        LAMBDA st2 : TraceChildren(expr, val, 1, at,
                                                   Walk(FALSE, TRUE, <<>>), env, st2))
          ELSE IF loc = <<"$">>
          THEN _trace(x, val, [at EXCEPT !.parent = Null, !.parentProperty = Null],
                      hasArrExpr, FALSE, env, st)
          ELSE IF IsSlice(loc)
          THEN _slice(loc, x, val, at, env, st)
          ELSE IF IsFilter(loc)
          THEN (IF EvalDisabled(env.eval) THEN Thrown(EvalPreventedFilter, st)
                ELSE TraceChildren(x, val, 1, at, Walk(FALSE, FALSE, SafeLoc(loc)), env, st))
          ELSE IF IsScript(loc)
          THEN (IF EvalDisabled(env.eval) THEN Thrown(EvalPreventedScript, st)
                ELSE Let(_eval(loc, val, at.path[Len(at.path)], at.parent,
                               at.parentProperty, env, st),
                         LAMBDA e :
                           IF e.threw THEN Thrown(e.error, e.st)
                           ELSE TraceComputed(e.value, x, val, at, hasArrExpr, env, e.st)))
          ELSE IF loc # <<>> /\ loc[1] = "@"
          THEN LET valueType == SubSeq(loc, 2, Len(loc) - 2)
               IN IF valueType \notin ValueTypeNames \/ valueType = <<"o", "t", "h", "e", "r">>
                  THEN Thrown("TypeError", st)
                  ELSE IF ValueTypeTest(valueType, val)
                  THEN Matches(<<[value |-> val, hasArrExpr |-> FALSE]>>, st)
                  ELSE Matches(<<>>, st)
          ELSE IF ~literalPriority /\ Truthy(val) /\ HasOwn(val, loc)
          THEN _trace(x, GetOwn(val, loc), ChildAt(at, val, Str(loc)), hasArrExpr, TRUE,
                      env, st)
          ELSE Matches(<<>>, st)

\* exprList.shift() acts on the list object evaluate was handed: the cache
\* changes with it when that object is the cache's own.
AfterShift(expr, pa) ==
  IF pa.list[1] = <<"$">> /\ Len(pa.list) > 1
  THEN [list |-> Tail(pa.list),
        cache |-> IF pa.shared THEN CachePut(pa.cache, expr, Tail(pa.list)) ELSE pa.cache]
  ELSE [list |-> pa.list, cache |-> pa.cache]

\* A faulty test: a single match is handed out bare whatever the path
IsSingleResultOfAnyPath(wrap, res) == ~wrap /\ Len(res) = 1

\* !wrap && result.length === 1 && !result[0].hasArrExpr
IsSingleResult(wrap, res) == ~wrap /\ Len(res) = 1 /\ ~res[1].hasArrExpr

\* What the constructor keeps of its options for the trace: this.eval,
\* this.sandbox and this.ignoreEvalErrors
Instance(eval, sandbox, ignoreEvalErrors) ==
  [eval |-> IF eval = Undefined THEN Str(<<"s", "a", "f", "e">>) ELSE eval,
   sandbox |-> IF Truthy(sandbox) THEN sandbox ELSE Obj(<<>>),
   ignoreEvalErrors |-> ignoreEvalErrors]

\* JSONPath.prototype.evaluate of the instance self, with resultType 'value'
\* and flatten false.  The result is [threw, error, value, cache, list,
\* sandbox, built]: list is what toPathArray returned (none when json is
\* falsy and toPathArray is not called), sandbox is the object this.sandbox
\* names as the call leaves it, built the keys of the scripts the call built.
evaluateOf(self, expr, json, wrap, cache) ==
  IF ~Truthy(json)
  THEN [threw |-> FALSE, error |-> "", value |-> Undefined, cache |-> cache, list |-> <<>>,
        sandbox |-> self.sandbox, built |-> <<>>]
  ELSE Let(toPathArray(expr, cache), LAMBDA pa :
       Let(AfterShift(expr, pa), LAMBDA sh :
       Let(_trace(sh.list, json, RootAt, FALSE, FALSE,
                  [eval |-> self.eval, ignoreEvalErrors |-> self.ignoreEvalErrors,
                   root |-> json],
                  EngineState(sh.cache, self.sandbox, <<>>)),
           LAMBDA result :
         [threw |-> result.threw,
          error |-> result.error,
          value |-> IF result.threw THEN Undefined
                    ELSE IF result.res = <<>> THEN (IF wrap THEN Arr(<<>>) ELSE Undefined)
                    ELSE IF IsSingleResult(wrap, result.res) THEN result.res[1].value
                    ELSE Arr([i \in 1..Len(result.res) |-> result.res[i].value]),
          cache |-> result.st.cache,
          list |-> pa.list,
          sandbox |-> result.st.sandbox,
          built |-> result.st.built])))

\* JSONPath({path: expr, json, wrap}): the eval option is left out, which
\* makes it 'safe', and the sandbox is a fresh empty object
evaluate(expr, json, wrap, cache) ==
  evaluateOf(Instance(Undefined, Undefined, FALSE), expr, json, wrap, cache)

(***************************************************************************)
(* Template utilities                                                      *)
(***************************************************************************)
NO_VALUE_PLACEHOLDER == <<"{", "N", "o", " ", "V", "a", "l", "u", "e", "}">>

SetMin(S) == CHOOSE m \in S : \A n \in S : m <= n

\* A faulty TEMPLATE_PATTERN, /\{(\$[^}]*)\}/g: the path may be empty
TemplateMatchEndEmptyPath(s, i) ==
  IF i + 1 <= Len(s) /\ s[i] = "{" /\ s[i + 1] = "$"
  THEN LET closes == {j \in (i + 2)..Len(s) : s[j] = "}"}
       IN IF closes # {} THEN SetMin(closes) ELSE 0
  ELSE 0

\* TEMPLATE_PATTERN = /\{(\$[^}]+)\}/g tried at position i of s: the position
\* of the closing brace of the match, 0 when there is no match at i.  A match
\* is `{`, `$`, one or more characters other than `}`, then `}`.
TemplateMatchEnd(s, i) ==
  IF i + 1 <= Len(s) /\ s[i] = "{" /\ s[i + 1] = "$"
  THEN LET closes == {j \in (i + 2)..Len(s) : s[j] = "}"}
       IN IF closes # {} /\ SetMin(closes) >= i + 3 THEN SetMin(closes) ELSE 0
  ELSE 0

\* A faulty exactness test: `{$` at the start and `}` at the end, whatever
\* lies between
isExactTemplateLoose(s) ==
  /\ Len(s) >= 4
  /\ s[1] = "{"
  /\ s[2] = "$"
  /\ s[Len(s)] = "}"

\* EXACT_TEMPLATE_PATTERN = /^\{(\$[^}]+)\}$/ .test(s)
isExactTemplate(s) ==
  /\ Len(s) >= 4
  /\ s[1] = "{"
  /\ s[2] = "$"
  /\ s[Len(s)] = "}"
  /\ \A j \in 3..(Len(s) - 1) : s[j] # "}"

\* formatRFC3339: a Date is held as its toISOString() text; the replacement
\* of /\.\d{3}Z$/ by 'Z' drops the milliseconds.
formatRFC3339(date) ==
  LET n == Len(date)
  IN IF n >= 5 /\ date[n] = "Z" /\ date[n - 4] = "."
        /\ IsDigit(date[n - 3]) /\ IsDigit(date[n - 2]) /\ IsDigit(date[n - 1])
     THEN SubSeq(date, 1, n - 5) \o <<"Z">>
     ELSE date

SgnlKey == <<"s", "g", "n", "l">>
TimeKey == <<"t", "i", "m", "e">>
NowKey == <<"n", "o", "w">>
RandomKey == <<"r", "a", "n", "d", "o", "m">>
UuidKey == <<"u", "u", "i", "d">>

\* injectSgnlNamespace: now is the clock's reading (new Date()), uuid is what
\* crypto.randomUUID() returns.
injectSgnlNamespace(jobContext, now, uuid) ==
  LET sgnl == OptGet(jobContext, SgnlKey)
      time == ObjSpread(Obj(<< <<NowKey, Str(formatRFC3339(now))>> >>),
                        SpreadEntries(OptGet(sgnl, TimeKey)))
      random == ObjSpread(Obj(<< <<UuidKey, Str(uuid)>> >>),
                          SpreadEntries(OptGet(sgnl, RandomKey)))
  IN ObjPut(jobContext, SgnlKey,
            ObjPut(ObjPut(ObjSpread(Obj(<<>>), SpreadEntries(sgnl)), TimeKey, time),
                   RandomKey, random))

\* extractJsonPathValue: [value, found, cache].  An exception of the query is
\* caught and reported as not found.
extractJsonPathValue(json, jsonPath, cache) ==
  Let(evaluate(IF jsonPath # <<>> /\ jsonPath[1] = "$" THEN jsonPath
               ELSE <<"$", ".">> \o jsonPath,
               json, FALSE, cache),
      LAMBDA results :
        IF results.threw \/ results.value.t \in {"undefined", "null"}
        THEN [value |-> Null, found |-> FALSE, cache |-> results.cache]
        ELSE [value |-> results.value, found |-> TRUE, cache |-> results.cache])

\* A faulty valueToString: strings are JSON-serialized too
valueToStringQuoted(value) ==
  IF value.t \in {"null", "undefined"} THEN <<>> ELSE JSONstringify(value)

valueToString(value) ==
  IF value.t \in {"null", "undefined"} THEN <<>>
  ELSE IF value.t = "str" THEN value.s
  ELSE JSONstringify(value)

FieldNotFound(jsonPath) ==
  <<"f", "a", "i", "l", "e", "d", " ", "t", "o", " ", "e", "x", "t", "r", "a", "c", "t", " ",
    "f", "i", "e", "l", "d", " ", "'">> \o jsonPath
  \o <<"'", ":", " ", "f", "i", "e", "l", "d", " ", "n", "o", "t", " ", "f", "o", "u", "n", "d">>

FieldIsEmpty(jsonPath) ==
  <<"f", "a", "i", "l", "e", "d", " ", "t", "o", " ", "e", "x", "t", "r", "a", "c", "t", " ",
    "f", "i", "e", "l", "d", " ", "'">> \o jsonPath
  \o <<"'", ":", " ", "f", "i", "e", "l", "d", " ", "i", "s", " ", "e", "m", "p", "t", "y">>

\* The replacement callback of resolveTemplateString for one match, whose
\* captured path is jsonPath: [text, errors, cache].
replaceOne(jsonPath, jobContext, omitExact, cache) ==
  Let(extractJsonPathValue(jobContext, jsonPath, cache), LAMBDA ex :
  Let(valueToString(ex.value), LAMBDA strValue :
    IF ~ex.found
    THEN [text |-> IF omitExact THEN <<>> ELSE NO_VALUE_PLACEHOLDER,
          errors |-> <<FieldNotFound(jsonPath)>>, cache |-> ex.cache]
    ELSE IF strValue = <<>>
    THEN [text |-> <<>>, errors |-> <<FieldIsEmpty(jsonPath)>>, cache |-> ex.cache]
    ELSE [text |-> strValue, errors |-> <<>>, cache |-> ex.cache]))

\* The positions at or after i where TEMPLATE_PATTERN matches
MatchStarts(s, i) == {p \in i..Len(s) : TemplateMatchEnd(s, p) # 0}

RECURSIVE replaceFromStopping(_, _, _, _, _)
\* A faulty replacement: the first placeholder that fails ends it, and the
\* rest of the string is kept as it is
replaceFromStopping(s, i, jobContext, omitExact, acc) ==
  IF MatchStarts(s, i) = {}
  THEN [acc EXCEPT !.result = @ \o SubSeq(s, i, Len(s))]
  ELSE Let(SetMin(MatchStarts(s, i)), LAMBDA p :
       Let(TemplateMatchEnd(s, p), LAMBDA j :
       Let(replaceOne(SubSeq(s, p + 1, j - 1), jobContext, omitExact, acc.cache),
           LAMBDA r :
             IF r.errors # <<>>
             THEN [result |-> acc.result \o SubSeq(s, i, p - 1) \o r.text
                              \o SubSeq(s, j + 1, Len(s)),
                   errors |-> acc.errors \o r.errors,
                   cache |-> r.cache]
             ELSE replaceFromStopping(s, j + 1, jobContext, omitExact,
                         [result |-> acc.result \o SubSeq(s, i, p - 1) \o r.text,
                          errors |-> acc.errors \o r.errors,
                          cache |-> r.cache]))))

\* templateString.replace(TEMPLATE_PATTERN, callback) from position i on: the
\* matches are taken leftmost first and do not overlap, the text between
\* them is kept; acc is what has been produced so far.
RECURSIVE replaceFrom(_, _, _, _, _)
replaceFrom(s, i, jobContext, omitExact, acc) ==
  IF MatchStarts(s, i) = {}
  THEN [acc EXCEPT !.result = @ \o SubSeq(s, i, Len(s))]
  ELSE Let(SetMin(MatchStarts(s, i)), LAMBDA p :
       Let(TemplateMatchEnd(s, p), LAMBDA j :
       Let(replaceOne(SubSeq(s, p + 1, j - 1), jobContext, omitExact, acc.cache),
           LAMBDA r :
             replaceFrom(s, j + 1, jobContext, omitExact,
                         [result |-> acc.result \o SubSeq(s, i, p - 1) \o r.text,
                          errors |-> acc.errors \o r.errors,
                          cache |-> r.cache]))))

\* A faulty resolution: a string one of whose placeholders failed resolves to
\* the empty string
resolveTemplateStringBlank(templateString, jobContext, omitNoValueForExactTemplates, cache) ==
  Let(replaceFrom(templateString, 1, jobContext,
                  isExactTemplate(templateString) /\ omitNoValueForExactTemplates,
                  [result |-> <<>>, errors |-> <<>>, cache |-> cache]),
      LAMBDA r : IF r.errors # <<>> THEN [r EXCEPT !.result = <<>>] ELSE r)

\* resolveTemplateString: [result, errors, cache]
resolveTemplateString(templateString, jobContext, omitNoValueForExactTemplates, cache) ==
  replaceFrom(templateString, 1, jobContext,
              isExactTemplate(templateString) /\ omitNoValueForExactTemplates,
              [result |-> <<>>, errors |-> <<>>, cache |-> cache])

\* A faulty filter: only the empty string is left out
IsKeptUnlessEmpty(item) == ~(item.t = "str" /\ item.s = <<>>)

\* item !== '' && item !== NO_VALUE_PLACEHOLDER
IsKept(item) == ~(item.t = "str" /\ item.s \in {<<>>, NO_VALUE_PLACEHOLDER})

RECURSIVE resolveValue(_, _, _, _)
RECURSIVE resolveItems(_, _, _, _)
RECURSIVE resolveEntries(_, _, _, _)
\* value.map(item => resolveValue(item)): [result, errors, cache]
resolveItems(items, jobContext, omit, cache) ==
  IF items = <<>> THEN [result |-> <<>>, errors |-> <<>>, cache |-> cache]
  ELSE Let(resolveValue(Head(items), jobContext, omit, cache), LAMBDA h :
       Let(resolveItems(Tail(items), jobContext, omit, h.cache), LAMBDA t :
         [result |-> <<h.result>> \o t.result, errors |-> h.errors \o t.errors,
          cache |-> t.cache]))

\* the loop over Object.entries(value): [result, errors, cache]
resolveEntries(kv, jobContext, omit, cache) ==
  IF kv = <<>> THEN [result |-> <<>>, errors |-> <<>>, cache |-> cache]
  ELSE Let(resolveValue(Head(kv)[2], jobContext, omit, cache), LAMBDA h :
       Let(resolveEntries(Tail(kv), jobContext, omit, h.cache), LAMBDA t :
         [result |-> (IF omit /\ ~IsKept(h.result) THEN <<>>
                      ELSE << <<Head(kv)[1], h.result>> >>) \o t.result,
          errors |-> h.errors \o t.errors,
          cache |-> t.cache]))

resolveValue(value, jobContext, omit, cache) ==
  CASE value.t = "str" ->
         Let(resolveTemplateString(value.s, jobContext, omit, cache), LAMBDA r :
           [result |-> Str(r.result), errors |-> r.errors, cache |-> r.cache])
    [] value.t = "arr" ->
         Let(resolveItems(value.items, jobContext, omit, cache), LAMBDA r :
           [result |-> Arr(IF omit THEN SelectSeq(r.result, IsKept) ELSE r.result),
            errors |-> r.errors, cache |-> r.cache])
    [] value.t = "obj" ->
         Let(resolveEntries(value.kv, jobContext, omit, cache), LAMBDA r :
           [result |-> Obj(r.result), errors |-> r.errors, cache |-> r.cache])
    [] OTHER -> [result |-> value, errors |-> <<>>, cache |-> cache]

\* A faulty default: taken whenever the value is falsy, as `v || d` does
DefaultWhenFalsy(v, d) == IF Truthy(v) THEN v ELSE d

\* An option left out is undefined and takes its default.
DefaultTo(v, d) == IF v.t = "undefined" THEN d ELSE v

\* The job context the placeholders of one call are resolved against
resolvedJobContext(jobContext, options, now, uuid) ==
  LET ctx == IF Truthy(jobContext) THEN jobContext ELSE Obj(<<>>)
  IN IF Truthy(DefaultTo(options.injectSgnlNamespace, Bool(TRUE)))
     THEN injectSgnlNamespace(ctx, now, uuid)
     ELSE ctx

\* readings of the clock (as toISOString() gives them) and random UUIDs
Clock == {<<"1", "2", ":", "0", "0", ".", "1", "2", "3", "Z">>}
Uuids == {<<"u", "1">>}
\* what the clock reads and what crypto.randomUUID() returns when asked again
LaterClock == {<<"1", "2", ":", "0", "1", ".", "4", "5", "6", "Z">>}
LaterUuids == {<<"u", "2">>}
Another(x, S) == IF \E y \in S : y # x THEN CHOOSE y \in S : y # x ELSE x

\* A faulty resolver: the namespace is injected anew after the first entry
\* of a mapping, when the clock and the generator have moved on
resolveJsonPathTemplatesPerEntry(input, jobContext, options, now, uuid, cache) ==
  IF input.t = "obj" /\ Len(input.kv) >= 2
  THEN Let(resolveValue(Obj(<<Head(input.kv)>>),
                        resolvedJobContext(jobContext, options, now, uuid),
                        Truthy(DefaultTo(options.omitNoValueForExactTemplates, Bool(FALSE))),
                        cache),
           LAMBDA h :
             Let(resolveValue(Obj(Tail(input.kv)),
                              resolvedJobContext(jobContext, options,
                                                 Another(now, Clock \cup LaterClock),
                                                 Another(uuid, Uuids \cup LaterUuids)),
                              Truthy(DefaultTo(options.omitNoValueForExactTemplates,
                                               Bool(FALSE))),
                              h.cache),
                 LAMBDA r : [result |-> Obj(h.result.kv \o r.result.kv),
                             errors |-> h.errors \o r.errors, cache |-> r.cache]))
  ELSE resolveValue(input, resolvedJobContext(jobContext, options, now, uuid),
                    Truthy(DefaultTo(options.omitNoValueForExactTemplates, Bool(FALSE))), cache)

\* resolveJsonPathTemplates: [result, errors, cache]
resolveJsonPathTemplates(input, jobContext, options, now, uuid, cache) ==
  resolveValue(input, resolvedJobContext(jobContext, options, now, uuid),
               Truthy(DefaultTo(options.omitNoValueForExactTemplates, Bool(FALSE))), cache)

(***************************************************************************)
(* Text helpers of the action and of the shared utilities                  *)
(***************************************************************************)
HexDigits == <<"0", "1", "2", "3", "4", "5", "6", "7", "8", "9", "A", "B", "C", "D", "E", "F">>
PercentEncoded(c) ==
  <<"%", HexDigits[(CharCode(c) \div 16) + 1], HexDigits[(CharCode(c) % 16) + 1]>>

IsAlnum(c) ==
  \/ CharCode(c) \in 48..57
  \/ CharCode(c) \in 65..90
  \/ CharCode(c) \in 97..122

RECURSIVE encodeURIComponent(_)
\* every character but A-Z a-z 0-9 - _ . ! ~ * ' ( ) is percent-encoded
encodeURIComponent(s) ==
  IF s = <<>> THEN <<>>
  ELSE (IF IsAlnum(Head(s)) \/ Head(s) \in {"-", "_", ".", "!", "~", "*", "'", "(", ")"}
        THEN <<Head(s)>> ELSE PercentEncoded(Head(s)))
       \o encodeURIComponent(Tail(s))

RECURSIVE FormEncode(_)
\* the application/x-www-form-urlencoded serialiser of URLSearchParams:
\* a space becomes `+`, every character but A-Z a-z 0-9 * - . _ is
\* percent-encoded
FormEncode(s) ==
  IF s = <<>> THEN <<>>
  ELSE (IF Head(s) = " " THEN <<"+">>
        ELSE IF IsAlnum(Head(s)) \/ Head(s) \in {"*", "-", ".", "_"} THEN <<Head(s)>>
        ELSE PercentEncoded(Head(s)))
       \o FormEncode(Tail(s))

RECURSIVE URLSearchParamsToString(_)
\* params.toString() of the appended <<name, value>> pairs
URLSearchParamsToString(pairs) ==
  IF pairs = <<>> THEN <<>>
  ELSE FormEncode(Head(pairs)[1]) \o <<"=">> \o FormEncode(Head(pairs)[2])
       \o (IF Len(pairs) > 1 THEN <<"&">> ELSE <<>>)
       \o URLSearchParamsToString(Tail(pairs))

Base64Alphabet ==
  <<"A", "B", "C", "D", "E", "F", "G", "H", "I", "J", "K", "L", "M", "N", "O", "P",
    "Q", "R", "S", "T", "U", "V", "W", "X", "Y", "Z", "a", "b", "c", "d", "e", "f",
    "g", "h", "i", "j", "k", "l", "m", "n", "o", "p", "q", "r", "s", "t", "u", "v",
    "w", "x", "y", "z", "0", "1", "2", "3", "4", "5", "6", "7", "8", "9", "+", "/">>

RECURSIVE Base64(_)
\* Buffer.from(s).toString('base64') of an ASCII string
Base64(s) ==
  IF s = <<>> THEN <<>>
  ELSE LET b1 == CharCode(s[1])
           b2 == IF Len(s) >= 2 THEN CharCode(s[2]) ELSE 0
           b3 == IF Len(s) >= 3 THEN CharCode(s[3]) ELSE 0
       IN <<Base64Alphabet[(b1 \div 4) + 1],
            Base64Alphabet[((b1 % 4) * 16 + (b2 \div 16)) + 1],
            IF Len(s) >= 2 THEN Base64Alphabet[((b2 % 16) * 4 + (b3 \div 64)) + 1] ELSE "=",
            IF Len(s) >= 3 THEN Base64Alphabet[(b3 % 64) + 1] ELSE "=">>
          \o (IF Len(s) > 3 THEN Base64(SubSeq(s, 4, Len(s))) ELSE <<>>)

\* String.prototype.startsWith
startsWith(s, prefix) == Len(s) >= Len(prefix) /\ SubSeq(s, 1, Len(prefix)) = prefix

RECURSIVE Join(_, _)
\* Array.prototype.join of strings
Join(parts, sep) ==
  IF parts = <<>> THEN <<>>
  ELSE IF Len(parts) = 1 THEN Head(parts)
  ELSE Head(parts) \o sep \o Join(Tail(parts), sep)

RECURSIVE TemplateText(_)
\* the text a template literal `${v}` puts for a value: String(v)
TemplateText(v) ==
  CASE v.t = "str" -> v.s
    [] v.t = "num" -> NumToChars(v.n)
    [] v.t = "bool" -> IF v.b THEN <<"t", "r", "u", "e">> ELSE <<"f", "a", "l", "s", "e">>
    [] v.t = "null" -> <<"n", "u", "l", "l">>
    [] v.t = "undefined" -> <<"u", "n", "d", "e", "f", "i", "n", "e", "d">>
    [] v.t = "arr" ->
         Join([i \in 1..Len(v.items) |->
                 IF v.items[i].t \in {"null", "undefined"} THEN <<>>
                 ELSE TemplateText(v.items[i])], <<",">>)
    [] OTHER -> <<"[", "o", "b", "j", "e", "c", "t", " ", "O", "b", "j", "e", "c", "t", "]">>

(***************************************************************************)
(* Authentication and address utilities                                    *)
(***************************************************************************)
BEARER_AUTH_TOKEN == <<"B", "E", "A", "R", "E", "R", "_", "A", "U", "T", "H", "_", "T", "O",
    "K", "E", "N">>
BASIC_USERNAME == <<"B", "A", "S", "I", "C", "_", "U", "S", "E", "R", "N", "A", "M", "E">>
BASIC_PASSWORD == <<"B", "A", "S", "I", "C", "_", "P", "A", "S", "S", "W", "O", "R", "D">>
OAUTH2_AUTHORIZATION_CODE_ACCESS_TOKEN == <<"O", "A", "U", "T", "H", "2", "_", "A", "U", "T",
    "H", "O", "R", "I", "Z", "A", "T", "I", "O", "N", "_", "C", "O", "D", "E", "_", "A", "C",
    "C", "E", "S", "S", "_", "T", "O", "K", "E", "N">>
OAUTH2_CLIENT_CREDENTIALS_CLIENT_SECRET == <<"O", "A", "U", "T", "H", "2", "_", "C", "L", "I",
    "E", "N", "T", "_", "C", "R", "E", "D", "E", "N", "T", "I", "A", "L", "S", "_", "C", "L",
    "I", "E", "N", "T", "_", "S", "E", "C", "R", "E", "T">>
OAUTH2_CLIENT_CREDENTIALS_TOKEN_URL == <<"O", "A", "U", "T", "H", "2", "_", "C", "L", "I",
    "E", "N", "T", "_", "C", "R", "E", "D", "E", "N", "T", "I", "A", "L", "S", "_", "T", "O",
    "K", "E", "N", "_", "U", "R", "L">>
OAUTH2_CLIENT_CREDENTIALS_CLIENT_ID == <<"O", "A", "U", "T", "H", "2", "_", "C", "L", "I",
    "E", "N", "T", "_", "C", "R", "E", "D", "E", "N", "T", "I", "A", "L", "S", "_", "C", "L",
    "I", "E", "N", "T", "_", "I", "D">>
OAUTH2_CLIENT_CREDENTIALS_SCOPE == <<"O", "A", "U", "T", "H", "2", "_", "C", "L", "I", "E",
    "N", "T", "_", "C", "R", "E", "D", "E", "N", "T", "I", "A", "L", "S", "_", "S", "C", "O",
    "P", "E">>
OAUTH2_CLIENT_CREDENTIALS_AUDIENCE == <<"O", "A", "U", "T", "H", "2", "_", "C", "L", "I", "E",
    "N", "T", "_", "C", "R", "E", "D", "E", "N", "T", "I", "A", "L", "S", "_", "A", "U", "D",
    "I", "E", "N", "C", "E">>
OAUTH2_CLIENT_CREDENTIALS_AUTH_STYLE == <<"O", "A", "U", "T", "H", "2", "_", "C", "L", "I",
    "E", "N", "T", "_", "C", "R", "E", "D", "E", "N", "T", "I", "A", "L", "S", "_", "A", "U",
    "T", "H", "_", "S", "T", "Y", "L", "E">>
ADDRESS == <<"A", "D", "D", "R", "E", "S", "S">>
AuthorizationKey == <<"A", "u", "t", "h", "o", "r", "i", "z", "a", "t", "i", "o", "n">>
AcceptKey == <<"A", "c", "c", "e", "p", "t">>
ContentTypeKey == <<"C", "o", "n", "t", "e", "n", "t", "-", "T", "y", "p", "e">>
ApplicationJson == <<"a", "p", "p", "l", "i", "c", "a", "t", "i", "o", "n", "/", "j", "s",
    "o", "n">>
BearerPrefix == <<"B", "e", "a", "r", "e", "r", " ">>
BasicPrefix == <<"B", "a", "s", "i", "c", " ">>

\* token.startsWith('Bearer ') ? token : `Bearer ${token}`
asBearer(token) ==
  IF startsWith(token, BearerPrefix) THEN token ELSE BearerPrefix \o token

\* `Basic ${Buffer.from(`${user}:${password}`).toString('base64')}`
basicCredentials(user, password) ==
  BasicPrefix \o Base64(TemplateText(user) \o <<":">> \o TemplateText(password))

\* An HTTP request handed to fetch
Request(method, url, headers, body) ==
  [method |-> method, url |-> url, headers |-> headers, body |-> body]

\* getClientCredentialsToken up to its fetch: the token request
tokenRequest(config) ==
  LET params ==
        << <<<<"g", "r", "a", "n", "t", "_", "t", "y", "p", "e">>, <<"c", "l", "i", "e", "n",
            "t", "_", "c", "r", "e", "d", "e", "n", "t", "i", "a", "l", "s">>>> >>
        \o (IF Truthy(config.scope)
            THEN << <<<<"s", "c", "o", "p", "e">>, TemplateText(config.scope)>> >> ELSE <<>>)
        \o (IF Truthy(config.audience)
            THEN << <<<<"a", "u", "d", "i", "e", "n", "c",
                "e">>, TemplateText(config.audience)>> >> ELSE <<>>)
        \o (IF config.authStyle = Str(<<"I", "n", "P", "a", "r", "a", "m", "s">>)
            THEN << <<<<"c", "l", "i", "e", "n", "t", "_", "i",
                "d">>, TemplateText(config.clientId)>>,
                    <<<<"c", "l", "i", "e", "n", "t", "_", "s", "e", "c", "r", "e",
                        "t">>, TemplateText(config.clientSecret)>> >>
            ELSE <<>>)
      headers ==
        << <<ContentTypeKey, Str(<<"a", "p", "p", "l", "i", "c", "a", "t", "i", "o", "n", "/",
            "x", "-", "w", "w", "w", "-", "f", "o", "r", "m", "-", "u", "r", "l", "e", "n",
            "c", "o", "d", "e", "d">>)>>,
           <<AcceptKey, Str(ApplicationJson)>> >>
        \o (IF config.authStyle = Str(<<"I", "n", "P", "a", "r", "a", "m", "s">>) THEN <<>>
            ELSE << <<AuthorizationKey,
                      Str(basicCredentials(config.clientId, config.clientSecret))>> >>)
  IN Request("POST", TemplateText(config.tokenUrl), Obj(headers),
             Str(URLSearchParamsToString(params)))

\* getClientCredentialsToken after its fetch: [threw, message, token]
tokenResult(response) ==
  IF ~response.ok
  THEN [threw |-> TRUE,
        message |-> <<"O", "A", "u", "t", "h", "2", " ", "t", "o", "k", "e", "n", " ", "r",
            "e", "q", "u", "e", "s", "t", " ", "f", "a", "i", "l", "e", "d", ":",
            " ">> \o NumToChars(response.status)
                    \o <<" ">> \o response.statusText \o <<" ", "-", " ">>
                    \o JSONstringify(response.body),
        token |-> Undefined]
  ELSE IF ~Truthy(ObjGet(response.body, <<"a", "c", "c", "e", "s", "s", "_", "t", "o", "k",
      "e", "n">>))
  THEN [threw |-> TRUE, message |-> <<"N", "o", " ", "a", "c", "c", "e", "s", "s", "_", "t",
      "o", "k", "e", "n", " ", "i", "n", " ", "O", "A", "u", "t", "h", "2", " ", "r", "e",
      "s", "p", "o", "n", "s", "e">>,
        token |-> Undefined]
  ELSE [threw |-> FALSE, message |-> <<>>,
        token |-> ObjGet(response.body, <<"a", "c", "c", "e", "s", "s", "_", "t", "o", "k",
            "e", "n">>)]

\* A faulty choice of the method: the access token of the authorization-code
\* flow comes before the bearer token and basic auth, and the client
\* credentials are never used
getAuthorizationHeaderCodeFirst(context) ==
  LET secrets == IF Truthy(context.secrets) THEN context.secrets ELSE Obj(<<>>)
      none == Request("", <<>>, Undefined, Undefined)
  IN IF Truthy(ObjGet(secrets, OAUTH2_AUTHORIZATION_CODE_ACCESS_TOKEN))
     THEN [kind |-> "header",
           value |-> asBearer(ObjGet(secrets, OAUTH2_AUTHORIZATION_CODE_ACCESS_TOKEN).s),
           request |-> none]
     ELSE IF Truthy(ObjGet(secrets, BEARER_AUTH_TOKEN))
     THEN [kind |-> "header", value |-> asBearer(ObjGet(secrets, BEARER_AUTH_TOKEN).s),
           request |-> none]
     ELSE [kind |-> "throw", value |-> <<>>, request |-> none]

\* getAuthorizationHeader up to its first await that waits for the network:
\* kind "header" with the header's value, kind "throw" with the message of
\* the error, or kind "fetch" with the token request to send.
getAuthorizationHeader(context) ==
  LET env == IF Truthy(context.environment) THEN context.environment ELSE Obj(<<>>)
      secrets == IF Truthy(context.secrets) THEN context.secrets ELSE Obj(<<>>)
      tokenUrl == ObjGet(env, OAUTH2_CLIENT_CREDENTIALS_TOKEN_URL)
      clientId == ObjGet(env, OAUTH2_CLIENT_CREDENTIALS_CLIENT_ID)
      none == Request("", <<>>, Undefined, Undefined)
  IN IF Truthy(ObjGet(secrets, BEARER_AUTH_TOKEN))
     THEN [kind |-> "header", value |-> asBearer(ObjGet(secrets, BEARER_AUTH_TOKEN).s),
           request |-> none]
     ELSE IF Truthy(ObjGet(secrets, BASIC_PASSWORD)) /\ Truthy(ObjGet(secrets, BASIC_USERNAME))
     THEN [kind |-> "header",
           value |-> basicCredentials(ObjGet(secrets, BASIC_USERNAME),
                                      ObjGet(secrets, BASIC_PASSWORD)),
           request |-> none]
     ELSE IF Truthy(ObjGet(secrets, OAUTH2_AUTHORIZATION_CODE_ACCESS_TOKEN))
     THEN [kind |-> "header",
           value |-> asBearer(ObjGet(secrets, OAUTH2_AUTHORIZATION_CODE_ACCESS_TOKEN).s),
           request |-> none]
     ELSE IF Truthy(ObjGet(secrets, OAUTH2_CLIENT_CREDENTIALS_CLIENT_SECRET))
     THEN IF ~Truthy(tokenUrl) \/ ~Truthy(clientId)
          THEN [kind |-> "throw",
                value |-> <<"O", "A", "u", "t", "h", "2", " ", "C", "l", "i", "e", "n", "t",
                    " ", "C", "r", "e", "d", "e", "n", "t", "i", "a", "l", "s", " ", "f", "l",
                    "o", "w", " ", "r", "e", "q", "u", "i", "r", "e", "s", " ", "T", "O", "K",
                    "E", "N", "_", "U", "R", "L", " ", "a", "n", "d", " ", "C", "L", "I", "E",
                    "N", "T", "_", "I", "D", " ", "i", "n", " ", "e", "n", "v">>,
                request |-> none]
          ELSE [kind |-> "fetch", value |-> <<>>,
                request |-> tokenRequest(
                  [tokenUrl |-> tokenUrl, clientId |-> clientId,
                   clientSecret |-> ObjGet(secrets, OAUTH2_CLIENT_CREDENTIALS_CLIENT_SECRET),
                   scope |-> ObjGet(env, OAUTH2_CLIENT_CREDENTIALS_SCOPE),
                   audience |-> ObjGet(env, OAUTH2_CLIENT_CREDENTIALS_AUDIENCE),
                   authStyle |-> ObjGet(env, OAUTH2_CLIENT_CREDENTIALS_AUTH_STYLE)])]
     ELSE [kind |-> "throw",
           value |-> <<"N", "o", " ", "a", "u", "t", "h", "e", "n", "t", "i", "c", "a", "t",
               "i", "o", "n", " ", "c", "o", "n", "f", "i", "g", "u", "r", "e", "d", ".", " ",
               "P", "r", "o", "v", "i", "d", "e", " ", "o", "n", "e", " ", "o", "f", ":", " ",
               "B", "E", "A", "R", "E", "R", "_", "A", "U", "T", "H", "_", "T", "O", "K", "E",
               "N", ",", " ", "B", "A", "S", "I", "C", "_", "U", "S", "E", "R", "N", "A", "M",
               "E", "/", "B", "A", "S", "I", "C", "_", "P", "A", "S", "S", "W", "O", "R", "D",
               ",", " ", "O", "A", "U", "T", "H", "2", "_", "A", "U", "T", "H", "O", "R", "I",
               "Z", "A", "T", "I", "O", "N", "_", "C", "O", "D", "E", "_", "A", "C", "C", "E",
               "S", "S", "_", "T", "O", "K", "E", "N", ",", " ", "o", "r", " ", "O", "A", "U",
               "T", "H", "2", "_", "C", "L", "I", "E", "N", "T", "_", "C", "R", "E", "D", "E",
               "N", "T", "I", "A", "L", "S", "_", "*">>,
           request |-> none]

\* createAuthHeaders, given the value of the Authorization header
createAuthHeaders(authHeader) ==
  Obj(<< <<AuthorizationKey, Str(authHeader)>>,
         <<AcceptKey, Str(ApplicationJson)>>,
         <<ContentTypeKey, Str(ApplicationJson)>> >>)

AddressKey == <<"a", "d", "d", "r", "e", "s", "s">>

\* getBaseUrl: [threw, message, value]
getBaseUrl(params, context) ==
  LET env == IF Truthy(context.environment) THEN context.environment ELSE Obj(<<>>)
      fromParams == OptGet(params, AddressKey)
      address == IF Truthy(fromParams) THEN fromParams ELSE ObjGet(env, ADDRESS)
  IN IF ~Truthy(address)
     THEN [threw |-> TRUE,
           message |-> <<"N", "o", " ", "U", "R", "L", " ", "s", "p", "e", "c", "i", "f", "i",
               "e", "d", ".", " ", "P", "r", "o", "v", "i", "d", "e", " ", "a", "d", "d", "r",
               "e", "s", "s", " ", "p", "a", "r", "a", "m", "e", "t", "e", "r", " ", "o", "r",
               " ", "A", "D", "D", "R", "E", "S", "S", " ", "e", "n", "v", "i", "r", "o", "n",
               "m", "e", "n", "t", " ", "v", "a", "r", "i", "a", "b", "l", "e">>,
           value |-> <<>>]
     ELSE [threw |-> FALSE, message |-> <<>>,
           value |-> IF address.s[Len(address.s)] = "/"
                     THEN SubSeq(address.s, 1, Len(address.s) - 1) ELSE address.s]

(***************************************************************************)
(* The action: src/script.mjs                                              *)
(***************************************************************************)
UserPrincipalNameKey == <<"u", "s", "e", "r", "P", "r", "i", "n", "c", "i", "p", "a", "l",
    "N", "a", "m", "e">>
RoleIdKey == <<"r", "o", "l", "e", "I", "d">>
DirectoryScopeIdKey == <<"d", "i", "r", "e", "c", "t", "o", "r", "y", "S", "c", "o", "p", "e",
    "I", "d">>
JustificationKey == <<"j", "u", "s", "t", "i", "f", "i", "c", "a", "t", "i", "o", "n">>
ErrorKey == <<"e", "r", "r", "o", "r">>
ReasonKey == <<"r", "e", "a", "s", "o", "n">>
IdKey == <<"i", "d">>
StatusKey == <<"s", "t", "a", "t", "u", "s">>

\* An Error object: id is its identity on the heap
Err(id, message) == [t |-> "err", id |-> id, message |-> message]

\* A faulty first fetch: the userPrincipalName is put in the URL as it is
getUserRequestUnencoded(userPrincipalName, address, headers) ==
  Request("GET",
          address \o <<"/", "v", "1", ".", "0", "/", "u", "s", "e", "r", "s", "/">>
          \o TemplateText(userPrincipalName),
          headers, Undefined)

\* The first fetch of unassignRoleFromUser
getUserRequest(userPrincipalName, address, headers) ==
  Request("GET",
          address \o <<"/", "v", "1", ".", "0", "/", "u", "s", "e", "r", "s",
              "/">> \o encodeURIComponent(TemplateText(userPrincipalName)),
          headers, Undefined)

\* A faulty message of the failed lookup: the status text is left out
getUserFailureNoStatusText(userPrincipalName, response) ==
  <<"F", "a", "i", "l", "e", "d", " ", "t", "o", " ", "g", "e", "t", " ", "u", "s", "e", "r", " ">>
  \o TemplateText(userPrincipalName) \o <<":", " ">> \o NumToChars(response.status)

\* `Failed to get user ${userPrincipalName}: ${status} ${statusText}`
getUserFailure(userPrincipalName, response) ==
  <<"F", "a", "i", "l", "e", "d", " ", "t", "o", " ", "g", "e", "t", " ", "u", "s", "e", "r",
      " ">> \o TemplateText(userPrincipalName) \o <<":", " ">>
  \o NumToChars(response.status) \o <<" ">> \o response.statusText

\* The second fetch of unassignRoleFromUser; now is what new Date() reads
unassignRoleRequest(roleId, directoryScopeId, justification, userId, address, headers, now) ==
  LET roleRemovalRequest ==
        Obj(<< <<<<"a", "c", "t", "i", "o", "n">>, Str(<<"a", "d", "m", "i", "n", "R", "e",
            "m", "o", "v", "e">>)>>,
               <<JustificationKey, justification>>,
               <<<<"r", "o", "l", "e", "D", "e", "f", "i", "n", "i", "t", "i", "o", "n", "I",
                   "d">>, roleId>>,
               <<DirectoryScopeIdKey, directoryScopeId>>,
               <<<<"p", "r", "i", "n", "c", "i", "p", "a", "l", "I", "d">>, userId>>,
               <<<<"s", "c", "h", "e", "d", "u", "l", "e", "I", "n", "f",
                   "o">>, Obj(<< <<<<"s", "t", "a", "r", "t", "D", "a", "t", "e", "T", "i",
                   "m", "e">>, Str(now)>> >>)>> >>)
  IN Request("POST",
             address \o <<"/", "v", "1", ".", "0", "/", "r", "o", "l", "e", "M", "a", "n",
                 "a", "g", "e", "m", "e", "n", "t", "/", "d", "i", "r", "e", "c", "t", "o",
                 "r", "y", "/", "r", "o", "l", "e", "A", "s", "s", "i", "g", "n", "m", "e",
                 "n", "t", "S", "c", "h", "e", "d", "u", "l", "e", "R", "e", "q", "u", "e",
                 "s", "t", "s">>,
             headers, Str(JSONstringify(roleRemovalRequest)))

\* `Failed to remove role ${roleId} from user ${userPrincipalName}: ...`
unassignRoleFailure(roleId, userPrincipalName, response) ==
  <<"F", "a", "i", "l", "e", "d", " ", "t", "o", " ", "r", "e", "m", "o", "v", "e", " ", "r",
      "o", "l", "e", " ">> \o TemplateText(roleId) \o <<" ", "f", "r", "o", "m", " ", "u",
      "s", "e", "r", " ">>
  \o TemplateText(userPrincipalName) \o <<":", " ">>
  \o NumToChars(response.status) \o <<" ">> \o response.statusText

\* The object invoke returns
invokeResult(userPrincipalName, roleId, userId, requestId) ==
  Obj(<< <<StatusKey, Str(<<"s", "u", "c", "c", "e", "s", "s">>)>>,
         <<UserPrincipalNameKey, userPrincipalName>>,
         <<RoleIdKey, roleId>>,
         <<<<"u", "s", "e", "r", "I", "d">>, userId>>,
         <<<<"r", "e", "q", "u", "e", "s", "t", "I", "d">>, requestId>> >>)

\* The object halt returns; now is what new Date() reads
haltResult(reason, now) ==
  Obj(<< <<StatusKey, Str(<<"h", "a", "l", "t", "e", "d">>)>>,
         <<ReasonKey, reason>>,
         <<<<"h", "a", "l", "t", "e", "d", "_", "a", "t">>, Str(now)>> >>)

CannotReadMessage ==
  <<"C", "a", "n", "n", "o", "t", " ", "r", "e", "a", "d", " ", "p", "r", "o", "p", "e", "r",
    "t", "i", "e", "s", " ", "o", "f", " ", "u", "n", "d", "e", "f", "i", "n", "e", "d", " ",
    "(", "r", "e", "a", "d", "i", "n", "g", " ", "'", "m", "e", "s", "s", "a", "g", "e", "'",
    ")">>

NoLocals ==
  [userPrincipalName |-> Undefined, roleId |-> Undefined, directoryScopeId |-> Undefined,
   justification |-> Undefined, address |-> <<>>, headers |-> Undefined,
   userId |-> Undefined]

UserPrincipalNameRequired ==
  <<"u", "s", "e", "r", "P", "r", "i", "n", "c", "i", "p", "a", "l", "N", "a", "m", "e",
    " ", "i", "s", " ", "r", "e", "q", "u", "i", "r", "e", "d">>
RoleIdRequired ==
  <<"r", "o", "l", "e", "I", "d", " ", "i", "s", " ", "r", "e", "q", "u", "i", "r", "e", "d">>
RemovedBySGNL ==
  <<"R", "e", "m", "o", "v", "e", "d", " ", "b", "y", " ", "S", "G", "N", "L", ".", "a", "i">>

\* invoke from its entry to its first wait for the network:
\*   next "throw": message is the message of the Error it rejects with;
\*   next "token" or "lookup": requests holds the request it sent.
invokeStart(params, context, now, uuid, c) ==
  Let(resolveJsonPathTemplates(params,
        IF Truthy(context.data) THEN context.data ELSE Obj(<<>>),
        [omitNoValueForExactTemplates |-> Undefined, injectSgnlNamespace |-> Undefined],
        now, uuid, c),
      LAMBDA r :
  Let(r.result, LAMBDA resolvedParams :
  Let(IF Len(r.errors) > 0 THEN <<r.errors>> ELSE <<>>, LAMBDA warned :
  Let([userPrincipalName |-> ObjGet(resolvedParams, UserPrincipalNameKey),
       roleId |-> ObjGet(resolvedParams, RoleIdKey),
       directoryScopeId |->
         DefaultTo(ObjGet(resolvedParams, DirectoryScopeIdKey), Str(<<"/">>)),
       justification |->
         DefaultTo(ObjGet(resolvedParams, JustificationKey), Str(RemovedBySGNL)),
       address |-> <<>>, headers |-> Undefined, userId |-> Undefined],
      LAMBDA extracted :
  Let(getBaseUrl(resolvedParams, context), LAMBDA address :
  Let(getAuthorizationHeader(context), LAMBDA auth :
  Let([next |-> "throw", message |-> <<>>, requests |-> <<>>, locals |-> NoLocals,
       warnings |-> warned, cache |-> r.cache],
      LAMBDA thrown :
    IF ~Truthy(extracted.userPrincipalName)
    THEN [thrown EXCEPT !.message = UserPrincipalNameRequired]
    ELSE IF ~Truthy(extracted.roleId)
    THEN [thrown EXCEPT !.message = RoleIdRequired]
    ELSE IF address.threw THEN [thrown EXCEPT !.message = address.message]
    ELSE IF auth.kind = "throw" THEN [thrown EXCEPT !.message = auth.value]
    ELSE IF auth.kind = "fetch"
    THEN [next |-> "token", message |-> <<>>, requests |-> <<auth.request>>,
          locals |-> [extracted EXCEPT !.address = address.value],
          warnings |-> warned, cache |-> r.cache]
    ELSE Let(createAuthHeaders(auth.value), LAMBDA headers :
           [next |-> "lookup", message |-> <<>>,
            requests |-> <<getUserRequest(extracted.userPrincipalName, address.value,
                                          headers)>>,
            locals |-> [extracted EXCEPT !.address = address.value, !.headers = headers],
            warnings |-> warned, cache |-> r.cache]))))))))

(***************************************************************************)
(* State                                                                   *)
(***************************************************************************)
VARIABLES
  cache,      \* JSONPath.cache, shared by every query of the process
  rPc,        \* the resolver call under study: "off", "ready", "done", "again"
  rc,         \* its arguments and the values it reads from the clock and crypto
  rOut,       \* what the call returned: [result, errors]
  rAgain,     \* what a second call on the returned result returned
  hPc,        \* the handler call under way: "idle", "token", "lookup", "removal", "done"
  call,       \* the handler called and its arguments
  locals,     \* the local variables of invoke that outlive a wait
  requests,   \* the HTTP requests handed to fetch, in order
  responses,  \* the HTTP responses received, in order
  outcome,    \* how the handler call settled: returned a value or threw an error
  warnings,   \* the error lists console.warn was given, in order
  heap,       \* the number of Error objects made so far
  calls,      \* the number of direct calls of the query engine made so far
  qOut,       \* the latest call of the query engine and what it returned
  first,      \* for each raw path, the segment list toPathArray first returned
  sl,         \* the slice under study: its bounds and the length of the array
  ev,         \* the expression under study, its syntax tree and its value
  built,      \* the keys under which _eval has stored a script it built, in order
  race,       \* two callers of the cache: their keys, their positions, the objects
  pl          \* the parser's hooks, registry of plugins and operator tables

resolverVars == <<rPc, rc, rOut, rAgain>>
invokeVars == <<hPc, call, locals, requests, responses, outcome, warnings, heap>>
auxVars == <<built, race, pl>>
\* no callers
NoRace == [pc |-> <<>>]
\* no parser under study
NoPlugins == [inits |-> <<>>]
engineVars == <<calls, qOut, first, sl, ev, auxVars>>

(***************************************************************************)
(* The inputs of the resolver calls                                        *)
(*                                                                         *)
(* A template string is assembled from at most MaxPieces pieces: literal   *)
(* text, or a placeholder `{` path `}` with one of Paths.                  *)
(***************************************************************************)
MaxPieces == 2

RECURSIVE SeqsUpTo(_, _)
\* the sequences over S of length at most n
SeqsUpTo(S, n) ==
  IF n = 0 THEN {<<>>}
  ELSE LET shorter == SeqsUpTo(S, n - 1)
       IN shorter \cup {Append(q, c) : q \in shorter, c \in S}

Paths ==
  { <<"$", ".", "a">>,             \* a property of the root
    <<"$", ".", "a", ".", "a">>,   \* a nested property
    <<"$", ".", ".", "a">>,        \* recursive descent to a name
    <<"$", ".">>,                  \* the root itself
    <<"$", ".", "@">> }            \* a value-type test of no known type: the query throws

Lit(text) == [kind |-> "lit", text |-> text]
Tpl(path) == [kind |-> "tpl", text |-> path]

\* Literal text: a letter, a lone brace, and `{$}`, which has the braces and
\* the dollar of a placeholder but no path and so is none.
LiteralPieces == {Lit(<<"x">>), Lit(<<"{">>), Lit(<<"{", "$", "}">>)}
Pieces == LiteralPieces \cup {Tpl(p) : p \in Paths}

PieceText(p) == IF p.kind = "tpl" THEN <<"{">> \o p.text \o <<"}">> ELSE p.text

RECURSIVE PiecesText(_)
PiecesText(ps) == IF ps = <<>> THEN <<>> ELSE PieceText(Head(ps)) \o PiecesText(Tail(ps))

KeyK == <<"k">>
KeyN == <<"n">>
Shapes == {"string", "mapping", "array"}

\* The input of a call: the string itself, a mapping holding it beside a
\* number, or a mapping holding an array of it and of null.
InputOf(shape, ps) ==
  CASE shape = "string" -> Str(PiecesText(ps))
    [] shape = "mapping" -> Obj(<< <<KeyK, Str(PiecesText(ps))>>, <<KeyN, Num(7)>> >>)
    [] shape = "array" -> Obj(<< <<KeyK, Arr(<<Str(PiecesText(ps)), Null>>)>> >>)

KeyA == <<"a">>
KeyB == <<"b">>
Contexts ==
  { Undefined,
    Obj(<< <<KeyA, Str(<<"v">>)>> >>),
    Obj(<< <<KeyA, Str(<<>>)>> >>),
    Obj(<< <<KeyA, Null>> >>),
    Obj(<< <<KeyA, Str(NO_VALUE_PLACEHOLDER)>> >>),
    Obj(<< <<KeyA, Num(12)>>, <<KeyB, Str(<<"w">>)>> >>),
    Obj(<< <<KeyA, Obj(<< <<KeyA, Str(<<"v">>)>> >>)>> >>) }

OptionsSet ==
  [omitNoValueForExactTemplates : {Undefined, Bool(TRUE)},
   injectSgnlNamespace : {Undefined, Bool(FALSE)}]


\* The worked example of the documentation
ExampleInput ==
  Obj(<< <<<<"l", "o", "g", "i", "n">>,
           Str(<<"{", "$", ".", "u", "s", "e", "r", ".", "e", "m", "a", "i", "l", "}">>)>> >>)
ExampleContext ==
  Obj(<< <<<<"u", "s", "e", "r">>,
           Obj(<< <<<<"e", "m", "a", "i", "l">>, Str(<<"a", "@", "b", ".", "c", "o", "m">>)>> >>)>> >>)
ExamplePieces == <<Tpl(<<"$", ".", "u", "s", "e", "r", ".", "e", "m", "a", "i", "l">>)>>

NoOut == [result |-> Undefined, errors |-> <<>>]
NoQuery ==
  [kind |-> "none", path |-> <<>>, json |-> Undefined, wrap |-> FALSE, hit |-> FALSE,
   asked |-> FALSE, list |-> <<>>, threw |-> FALSE, value |-> Undefined]
NoSlice ==
  [pc |-> "off", start |-> <<>>, end |-> <<>>, step |-> <<>>, target |-> Undefined,
   threw |-> FALSE, value |-> Undefined]
NoEval == [pc |-> "off"]
\* no direct call of the query engine or of the evaluator is under study
EngineOff ==
  /\ calls = 0
  /\ qOut = NoQuery
  /\ first = EmptyCache
  /\ sl = NoSlice
  /\ ev = NoEval
  /\ built = <<>>
  /\ race = NoRace
  /\ pl = NoPlugins
NoCall == [handler |-> "none", params |-> Undefined, context |-> Undefined]
NoOutcome == [kind |-> "none", value |-> Undefined]

InitResolver ==
  /\ cache = EmptyCache
  /\ rPc = "ready"
  /\ \/ \E shape \in Shapes, ps \in SeqsUpTo(Pieces, MaxPieces), ctx \in Contexts,
           o \in OptionsSet :
          rc = [shape |-> shape, pieces |-> ps, input |-> InputOf(shape, ps),
                jobContext |-> ctx, options |-> o]
     \/ \E o \in OptionsSet :
          rc = [shape |-> "example", pieces |-> ExamplePieces, input |-> ExampleInput,
                jobContext |-> ExampleContext, options |-> o]
  /\ rOut = NoOut
  /\ rAgain = NoOut
  /\ hPc = "off"
  /\ call = NoCall
  /\ locals = NoLocals
  /\ requests = <<>>
  /\ responses = <<>>
  /\ outcome = NoOutcome
  /\ warnings = <<>>
  /\ heap = 0
  /\ EngineOff

\* The inputs that read the injected namespace: the same template string in
\* every place of a mapping of two entries, of a mapping holding an array,
\* and of a mapping holding a mapping that holds an array
SgnlShapes == {"twice", "inArray", "deep"}
SgnlInputOf(shape, text) ==
  CASE shape = "twice" -> Obj(<< <<KeyK, Str(text)>>, <<KeyN, Str(text)>> >>)
    [] shape = "inArray" ->
         Obj(<< <<KeyK, Str(text)>>, <<KeyN, Arr(<<Str(text), Num(7), Str(text)>>)>> >>)
    [] shape = "deep" ->
         Obj(<< <<KeyK, Arr(<<Str(text)>>)>>,
                <<KeyN, Obj(<< <<KeyK, Arr(<<Obj(<< <<KeyN, Str(text)>> >>)>>)>>,
                               <<KeyN, Str(text)>> >>)>> >>)
SgnlPath(group, name) == <<"$", ".">> \o SgnlKey \o <<".">> \o group \o <<".">> \o name
PathNow == SgnlPath(TimeKey, NowKey)
PathUuid == SgnlPath(RandomKey, UuidKey)
SgnlPieces ==
  {<<Tpl(PathNow)>>, <<Tpl(PathUuid)>>, <<Tpl(PathNow), Lit(<<"/">>), Tpl(PathUuid)>>,
   <<Lit(<<"x">>), Tpl(PathNow)>>}
\* job contexts: none, one without the namespace, one that brings its own
\* sgnl.time.now
SgnlContexts ==
  { Undefined,
    Obj(<< <<KeyA, Str(<<"v">>)>> >>),
    Obj(<< <<SgnlKey, Obj(<< <<TimeKey, Obj(<< <<NowKey, Str(<<"T">>)>> >>)>> >>)>> >>) }
SgnlOptionsSet ==
  [omitNoValueForExactTemplates : {Undefined, Bool(TRUE)},
   injectSgnlNamespace : {Undefined, Bool(TRUE)}]
\* The inputs that read a namespace the caller has filled in part: one
\* template string in a mapping, reading one key under sgnl
CallerShapes == {"probe"}
OtherKey == <<"o">>
ZoneKey == <<"z">>
PathOther == <<"$", ".">> \o SgnlKey \o <<".">> \o OtherKey
PathTime == <<"$", ".">> \o SgnlKey \o <<".">> \o TimeKey
PathRandom == <<"$", ".">> \o SgnlKey \o <<".">> \o RandomKey
PathZone == SgnlPath(TimeKey, ZoneKey)
ProbePaths == {PathNow, PathUuid, PathOther, PathTime, PathRandom, PathZone}
CallerPieces == {<<Tpl(p)>> : p \in ProbePaths}
SgnlOf(kv) == Obj(<< <<SgnlKey, Obj(kv)>> >>)
\* job contexts: none, one without the namespace, and ones that bring their
\* own values under sgnl: the time, the UUID, both beside a key of their
\* own, a key inside sgnl.time, and sgnl.time or sgnl.random as a number
CallerContexts ==
  { Undefined,
    Obj(<< <<KeyA, Str(<<"v">>)>> >>),
    SgnlOf(<< <<TimeKey, Obj(<< <<NowKey, Str(<<"T">>)>> >>)>> >>),
    SgnlOf(<< <<RandomKey, Obj(<< <<UuidKey, Str(<<"U">>)>> >>)>> >>),
    SgnlOf(<< <<OtherKey, Str(<<"w">>)>>,
              <<TimeKey, Obj(<< <<NowKey, Num(9)>> >>)>>,
              <<RandomKey, Obj(<< <<UuidKey, Str(<<"U">>)>> >>)>> >>),
    SgnlOf(<< <<TimeKey, Obj(<< <<ZoneKey, Str(<<"u", "t", "c">>)>> >>)>> >>),
    SgnlOf(<< <<OtherKey, Num(3)>> >>),
    SgnlOf(<< <<TimeKey, Num(5)>> >>),
    SgnlOf(<< <<RandomKey, Bool(TRUE)>>, <<OtherKey, Str(<<"w">>)>> >>) }
\* the calls that read the namespace are made at either of two times
ClockOf(shape) ==
  IF shape \in SgnlShapes \cup CallerShapes THEN Clock \cup LaterClock ELSE Clock
UuidsOf(shape) ==
  IF shape \in SgnlShapes \cup CallerShapes THEN Uuids \cup LaterUuids ELSE Uuids

InitSgnl ==
  /\ cache = EmptyCache
  /\ rPc = "ready"
  /\ \E shape \in SgnlShapes, ps \in SgnlPieces, ctx \in SgnlContexts, o \in SgnlOptionsSet :
       rc = [shape |-> shape, pieces |-> ps, input |-> SgnlInputOf(shape, PiecesText(ps)),
             jobContext |-> ctx, options |-> o]
  /\ rOut = NoOut
  /\ rAgain = NoOut
  /\ hPc = "off"
  /\ call = NoCall
  /\ locals = NoLocals
  /\ requests = <<>>
  /\ responses = <<>>
  /\ outcome = NoOutcome
  /\ warnings = <<>>
  /\ heap = 0
  /\ EngineOff

InitCaller ==
  /\ cache = EmptyCache
  /\ rPc = "ready"
  /\ \E shape \in CallerShapes, ps \in CallerPieces, ctx \in CallerContexts,
        o \in SgnlOptionsSet :
       rc = [shape |-> shape, pieces |-> ps,
             input |-> Obj(<< <<KeyK, Str(PiecesText(ps))>> >>),
             jobContext |-> ctx, options |-> o]
  /\ rOut = NoOut
  /\ rAgain = NoOut
  /\ hPc = "off"
  /\ call = NoCall
  /\ locals = NoLocals
  /\ requests = <<>>
  /\ responses = <<>>
  /\ outcome = NoOutcome
  /\ warnings = <<>>
  /\ heap = 0
  /\ EngineOff

\* One call resolveJsonPathTemplates(input, jobContext, options)
Resolve ==
  /\ rPc = "ready"
  /\ \E now \in ClockOf(rc.shape), uuid \in UuidsOf(rc.shape) :
       \E r \in {resolveJsonPathTemplates(rc.input, rc.jobContext, rc.options, now, uuid, cache)} :
          /\ rOut' = [result |-> r.result, errors |-> r.errors]
          /\ cache' = r.cache
  /\ rPc' = "done"
  /\ UNCHANGED <<rc, rAgain, invokeVars, engineVars>>

\* A second call, on the result of the first
ResolveAgain ==
  /\ rPc = "done"
  /\ \E now \in Clock, uuid \in Uuids :
       \E r \in {resolveJsonPathTemplates(rOut.result, rc.jobContext, rc.options, now, uuid, cache)} :
          /\ rAgain' = [result |-> r.result, errors |-> r.errors]
          /\ cache' = r.cache
  /\ rPc' = "again"
  /\ UNCHANGED <<rc, rOut, invokeVars, engineVars>>

(***************************************************************************)
(* The calls of the handlers                                               *)
(***************************************************************************)
\* What the caller may put in a parameter: nothing, the empty string, plain
\* text, or a placeholder for the field `a` of the job's data.
UserPrincipalNames == {Undefined, Str(<<>>), Str(<<"u", "@", "x">>), Str(<<"{", "$", ".", "a",
    "}">>)}
RoleIds == {Undefined, Str(<<>>), Str(<<"r", "1">>), Str(<<"{", "$", ".", "a", "}">>)}
ScopesAndJustifications ==
  { <<Undefined, Undefined>>,
    <<Str(<<"/", "a", "u", "/", "7">>), Str(<<"n", "o", " ", "\"", "n", "e", "e", "d",
        "\"">>)>>,
    <<Str(<<>>), Undefined>> }
Addresses == {Undefined, Str(<<"p", "/">>)}

\* the object literal of the supplied parameters
Supplied(kv) == Obj(SelectSeq(kv, LAMBDA e : e[2] # Undefined))

InvokeParams ==
  { Supplied(<< <<UserPrincipalNameKey, u>>, <<RoleIdKey, r>>,
                <<DirectoryScopeIdKey, sj[1]>>, <<JustificationKey, sj[2]>>,
                <<AddressKey, a>> >>) :
      u \in UserPrincipalNames, r \in RoleIds, sj \in ScopesAndJustifications,
      a \in Addresses }

Datas == {Undefined, Obj(<< <<KeyA, Str(<<"v", " ",
    "w">>)>> >>), Obj(<< <<KeyA, Str(<<>>)>> >>)}

SecretsSet ==
  { Obj(<<>>),
    Obj(<< <<BEARER_AUTH_TOKEN, Str(<<"t", "1">>)>> >>),
    Obj(<< <<BEARER_AUTH_TOKEN, Str(<<"B", "e", "a", "r", "e", "r", " ", "t", "1">>)>>,
           <<BASIC_USERNAME, Str(<<"u">>)>>, <<BASIC_PASSWORD, Str(<<"p", "w">>)>>,
           <<OAUTH2_CLIENT_CREDENTIALS_CLIENT_SECRET, Str(<<"s">>)>> >>),
    Obj(<< <<BASIC_USERNAME, Str(<<"u">>)>>, <<BASIC_PASSWORD, Str(<<"p", "w">>)>>,
           <<OAUTH2_AUTHORIZATION_CODE_ACCESS_TOKEN, Str(<<"t", "2">>)>> >>),
    Obj(<< <<BASIC_USERNAME, Str(<<"u">>)>>,
           <<OAUTH2_AUTHORIZATION_CODE_ACCESS_TOKEN, Str(<<"t", "2">>)>>,
           <<OAUTH2_CLIENT_CREDENTIALS_CLIENT_SECRET, Str(<<"s">>)>> >>),
    Obj(<< <<OAUTH2_CLIENT_CREDENTIALS_CLIENT_SECRET, Str(<<"s">>)>> >>) }

Environments ==
  { Undefined,
    Obj(<< <<ADDRESS, Str(<<"h">>)>> >>),
    Obj(<< <<ADDRESS, Str(<<"h", "/">>)>>,
           <<OAUTH2_CLIENT_CREDENTIALS_TOKEN_URL, Str(<<"k">>)>>,
           <<OAUTH2_CLIENT_CREDENTIALS_CLIENT_ID, Str(<<"c">>)>> >>),
    Obj(<< <<ADDRESS, Str(<<"h">>)>>,
           <<OAUTH2_CLIENT_CREDENTIALS_TOKEN_URL, Str(<<"k">>)>>,
           <<OAUTH2_CLIENT_CREDENTIALS_CLIENT_ID, Str(<<"c">>)>>,
           <<OAUTH2_CLIENT_CREDENTIALS_SCOPE, Str(<<"a", " ", "b">>)>>,
           <<OAUTH2_CLIENT_CREDENTIALS_AUTH_STYLE, Str(<<"I", "n", "P", "a", "r", "a", "m",
               "s">>)>> >>),
    Obj(<< <<ADDRESS, Str(<<"h">>)>>,
           <<OAUTH2_CLIENT_CREDENTIALS_CLIENT_ID, Str(<<"c">>)>> >>) }

InvokeContexts == [environment : Environments, secrets : SecretsSet, data : Datas]

\* What the network may answer
Response(ok, status, statusText, body) ==
  [ok |-> ok, status |-> status, statusText |-> statusText, body |-> body]
TokenResponses ==
  { Response(TRUE, 200, <<"O", "K">>, Obj(<< <<<<"a", "c", "c", "e", "s", "s", "_", "t", "o",
      "k", "e", "n">>, Str(<<"t", "3">>)>> >>)),
    Response(TRUE, 200, <<"O", "K">>, Obj(<<>>)),
    Response(FALSE, 401, <<"U", "n", "a", "u", "t", "h", "o", "r", "i", "z", "e",
        "d">>, Obj(<< <<ErrorKey, Str(<<"b", "a", "d">>)>> >>)) }
LookupResponses ==
  { Response(TRUE, 200, <<"O", "K">>, Obj(<< <<IdKey, Str(<<"i", "d", "-", "u">>)>> >>)),
    Response(FALSE, 404, <<"N", "o", "t", " ", "F", "o", "u", "n", "d">>, Obj(<<>>)),
    Response(FALSE, 429, <<"T", "o", "o", " ", "M", "a", "n", "y", " ", "R", "e", "q", "u",
        "e", "s", "t", "s">>, Obj(<<>>)) }
RemovalResponses ==
  { Response(TRUE, 201, <<"C", "r", "e", "a", "t", "e", "d">>, Obj(<< <<IdKey, Str(<<"i", "d",
      "-", "q">>)>> >>)),
    Response(FALSE, 400, <<"B", "a", "d", " ", "R", "e", "q", "u", "e", "s", "t">>, Obj(<<>>)),
    Response(FALSE, 503, <<"S", "e", "r", "v", "i", "c", "e", " ", "U", "n", "a", "v", "a",
        "i", "l", "a", "b", "l", "e">>, Obj(<<>>)) }

\* The messages of the errors the framework may hand to the error handler
ErrorMessages ==
  { <<"R", "a", "t", "e", " ", "l", "i", "m", "i", "t", "e", "d", ":", " ", "4", "2", "9",
      " ", "T", "o", "o", " ", "M", "a", "n", "y", " ", "R", "e", "q", "u", "e", "s", "t",
      "s">>,
    <<"B", "a", "d", " ", "g", "a", "t", "e", "w", "a", "y", ":", " ", "5", "0", "2">>,
    <<"S", "e", "r", "v", "i", "c", "e", " ", "u", "n", "a", "v", "a", "i", "l", "a", "b",
        "l", "e", ":", " ", "5", "0", "3">>,
    <<"G", "a", "t", "e", "w", "a", "y", " ", "t", "i", "m", "e", "o", "u", "t", ":", " ",
        "5", "0", "4">>,
    <<"U", "n", "a", "u", "t", "h", "o", "r", "i", "z", "e", "d", ":", " ", "4", "0", "1">>,
    <<"F", "o", "r", "b", "i", "d", "d", "e", "n", ":", " ", "4", "0", "3">>,
    <<"U", "n", "k", "n", "o", "w", "n", " ", "e", "r", "r", "o", "r", " ", "o", "c", "c",
        "u", "r", "r", "e", "d">> }
HaltReasons == {Undefined, Str(<<"t", "i", "m", "e", "o", "u", "t">>)}

Returned(value) == [kind |-> "returned", value |-> value]
Threw(error) == [kind |-> "threw", value |-> error]

Init ==
  /\ cache = EmptyCache
  /\ rPc = "off"
  /\ rc = [shape |-> "none", pieces |-> <<>>, input |-> Undefined,
           jobContext |-> Undefined, options |-> Undefined]
  /\ rOut = NoOut
  /\ rAgain = NoOut
  /\ hPc = "idle"
  /\ call = NoCall
  /\ locals = NoLocals
  /\ requests = <<>>
  /\ responses = <<>>
  /\ outcome = NoOutcome
  /\ warnings = <<>>
  /\ heap = 0
  /\ EngineOff

\* invoke(params, context) up to its first wait for the network
Invoke ==
  /\ hPc = "idle"
  /\ \E params \in InvokeParams, context \in InvokeContexts, now \in Clock, uuid \in Uuids :
       \E s \in {invokeStart(params, context, now, uuid, cache)} :
          /\ call' = [handler |-> "invoke", params |-> params, context |-> context]
          /\ cache' = s.cache
          /\ warnings' = warnings \o s.warnings
          /\ locals' = s.locals
          /\ requests' = requests \o s.requests
          /\ IF s.next = "throw"
             THEN /\ outcome' = Threw(Err(heap + 1, s.message))
                  /\ heap' = heap + 1
                  /\ hPc' = "done"
             ELSE /\ hPc' = s.next
                  /\ UNCHANGED <<outcome, heap>>
  /\ UNCHANGED <<responses, resolverVars, engineVars>>

\* The token endpoint answers: getClientCredentialsToken resumes, then
\* createAuthHeaders, then invoke up to the first fetch of
\* unassignRoleFromUser.
TokenResponse ==
  /\ hPc = "token"
  /\ \E response \in TokenResponses :
       \E tr \in {tokenResult(response)} :
          /\ responses' = Append(responses, response)
          /\ IF tr.threw
             THEN /\ outcome' = Threw(Err(heap + 1, tr.message))
                  /\ heap' = heap + 1
                  /\ hPc' = "done"
                  /\ UNCHANGED <<locals, requests>>
             ELSE \E headers \in {createAuthHeaders(BearerPrefix \o TemplateText(tr.token))} :
                    /\ locals' = [locals EXCEPT !.headers = headers]
                    /\ requests' = Append(requests,
                         getUserRequest(locals.userPrincipalName, locals.address, headers))
                    /\ hPc' = "lookup"
                    /\ UNCHANGED <<outcome, heap>>
  /\ UNCHANGED <<cache, call, warnings, resolverVars, engineVars>>

\* The user lookup answers: unassignRoleFromUser resumes up to its second
\* fetch, or throws, which invoke's catch rethrows.
LookupResponse ==
  /\ hPc = "lookup"
  /\ \E response \in LookupResponses, now \in Clock :
       /\ responses' = Append(responses, response)
       /\ IF ~response.ok
          THEN /\ outcome' = Threw(Err(heap + 1,
                    getUserFailure(locals.userPrincipalName, response)))
               /\ heap' = heap + 1
               /\ hPc' = "done"
               /\ UNCHANGED <<locals, requests>>
          ELSE /\ locals' = [locals EXCEPT !.userId = ObjGet(response.body, IdKey)]
               /\ requests' = Append(requests,
                    unassignRoleRequest(locals.roleId, locals.directoryScopeId,
                                        locals.justification, ObjGet(response.body, IdKey),
                                        locals.address, locals.headers, now))
               /\ hPc' = "removal"
               /\ UNCHANGED <<outcome, heap>>
  /\ UNCHANGED <<cache, call, warnings, resolverVars, engineVars>>

\* The removal request answers: unassignRoleFromUser returns or throws, and
\* invoke returns its result or rethrows.
RemovalResponse ==
  /\ hPc = "removal"
  /\ \E response \in RemovalResponses :
       /\ responses' = Append(responses, response)
       /\ IF ~response.ok
          THEN /\ outcome' = Threw(Err(heap + 1,
                    unassignRoleFailure(locals.roleId, locals.userPrincipalName, response)))
               /\ heap' = heap + 1
          ELSE /\ outcome' = Returned(invokeResult(locals.userPrincipalName, locals.roleId,
                                                   locals.userId, ObjGet(response.body, IdKey)))
               /\ heap' = heap
  /\ hPc' = "done"
  /\ UNCHANGED <<cache, call, locals, requests, warnings, resolverVars, engineVars>>

\* The pending fetch rejects (the network fails): the rejection, an Error the
\* runtime made, propagates out of invoke.
FetchRejects ==
  /\ hPc \in {"token", "lookup", "removal"}
  /\ outcome' = Threw(Err(heap + 1, <<"f", "e", "t", "c", "h", " ", "f", "a", "i", "l", "e",
      "d">>))
  /\ heap' = heap + 1
  /\ hPc' = "done"
  /\ UNCHANGED <<cache, call, locals, requests, responses, warnings, resolverVars, engineVars>>

\* A faulty error handler: it throws a copy of the error it was given
errorOutcomeCopy(params, h) ==
  IF ObjGet(params, ErrorKey).t # "err"
  THEN Threw(Err(h + 1, CannotReadMessage))
  ELSE Threw(Err(h + 1, ObjGet(params, ErrorKey).message))

\* How error(params, context) settles, h Error objects having been made:
\* reading error.message of no error throws a TypeError; otherwise the log
\* line is written and the error is thrown again.
errorOutcome(params, h) ==
  IF ObjGet(params, ErrorKey).t # "err"
  THEN Threw(Err(h + 1, CannotReadMessage))
  ELSE Threw(ObjGet(params, ErrorKey))

\* error(params, context), params being the original parameters plus the
\* error: called by the framework after invoke rejected, or on its own with
\* any error, or with none.
ErrorHandler ==
  /\ \/ hPc = "idle"
     \/ hPc = "done" /\ call.handler = "invoke" /\ outcome.kind = "threw"
  /\ \E given \in (IF hPc = "idle"
                    THEN {Err(heap + 1, m) : m \in ErrorMessages} \cup {Undefined}
                    ELSE {Err(heap + 1, outcome.value.message)}),
        original \in (IF hPc = "idle"
                       THEN {Supplied(<< <<UserPrincipalNameKey, u>>, <<RoleIdKey, u>> >>) :
                               u \in {Undefined, Str(<<"u", "@", "x">>)}}
                       ELSE {call.params}) :
       \E params \in {ObjSpread(original, Supplied(<< <<ErrorKey, given>> >>).kv)} :
          /\ call' = [handler |-> "error", params |-> params, context |-> call.context]
          /\ outcome' = errorOutcome(params, IF given = Undefined THEN heap ELSE heap + 1)
          /\ heap' = heap + 1
  /\ hPc' = "done"
  /\ UNCHANGED <<cache, locals, requests, responses, warnings, resolverVars, engineVars>>

\* halt(params, context)
Halt ==
  /\ hPc = "idle"
  /\ \E reason \in HaltReasons, now \in Clock :
       /\ call' = [handler |-> "halt",
                   params |-> Supplied(<< <<ReasonKey, reason>> >>),
                   context |-> Undefined]
       /\ outcome' = Returned(haltResult(reason, now))
  /\ hPc' = "done"
  /\ UNCHANGED <<cache, locals, requests, responses, warnings, heap, resolverVars, engineVars>>

vars == <<cache, rPc, rc, rOut, rAgain, hPc, call, locals, requests, responses, outcome,
          warnings, heap, calls, qOut, first, sl, ev, built, race, pl>>

Next ==
  \/ Invoke
  \/ TokenResponse
  \/ LookupResponse
  \/ RemovalResponse
  \/ FetchRejects
  \/ ErrorHandler
  \/ Halt

Spec == Init /\ [][Next]_vars

NextResolver == Resolve \/ ResolveAgain
SpecResolver == InitResolver /\ [][NextResolver]_vars
SpecSgnl == InitSgnl /\ [][NextResolver]_vars
SpecCaller == InitCaller /\ [][NextResolver]_vars

(***************************************************************************)
(* Direct calls of the query engine                                        *)
(***************************************************************************)
MaxCalls == 3

KeyStore == <<"s", "t", "o", "r", "e">>
KeyBook == <<"b", "o", "o", "k">>
KeyAuthor == <<"a", "u", "t", "h", "o", "r">>
KeyPrice == <<"p", "r", "i", "c", "e">>

\* a shop: books in an array, each with an author and a price, and a price
\* of the shop itself, written after the books
DocStore ==
  Obj(<< <<KeyStore,
           Obj(<< <<KeyBook,
                    Arr(<< Obj(<< <<KeyAuthor, Str(<<"A">>)>>, <<KeyPrice, Num(1)>> >>),
                           Obj(<< <<KeyAuthor, Str(<<"B">>)>>, <<KeyPrice, Num(2)>> >>) >>)>>,
                  <<KeyPrice, Num(3)>> >>)>> >>)
\* an array of five numbers
DocFive == Obj(<< <<KeyA, Arr(<<Num(10), Num(20), Num(30), Num(40), Num(50)>>)>> >>)
\* an array of one number beside a string, and a price that holds a price
DocOne ==
  Obj(<< <<KeyA, Arr(<<Num(7)>>)>>, <<KeyB, Str(<<"x", "y">>)>>,
         <<KeyPrice, Obj(<< <<KeyPrice, Num(4)>> >>)>> >>)
Docs == {DocStore, DocFive, DocOne, Null}

PathAuthors == <<"$", ".", "s", "t", "o", "r", "e", ".", "b", "o", "o", "k", "[", "*", "]",
    ".", "a", "u", "t", "h", "o", "r">>
PathPrices == <<"$", ".", ".", "p", "r", "i", "c", "e">>
PathShopPrice == <<"$", ".", "s", "t", "o", "r", "e", ".", "p", "r", "i", "c", "e">>
PathA == <<"$", ".", "a">>
PathAll == <<"$", ".", "a", "[", "*", "]">>
PathB == <<"$", ".", "b">>
PathOneToThree == <<"$", ".", "a", "[", "1", ":", "3", "]">>
PathLastTwo == <<"$", ".", "a", "[", "-", "2", ":", "]">>
QueryPaths ==
  {PathAuthors, PathPrices, PathShopPrice, PathA, PathAll, PathB, PathOneToThree, PathLastTwo}

InitQuery ==
  /\ cache = EmptyCache
  /\ rPc = "off"
  /\ rc = [shape |-> "none", pieces |-> <<>>, input |-> Undefined,
           jobContext |-> Undefined, options |-> Undefined]
  /\ rOut = NoOut
  /\ rAgain = NoOut
  /\ hPc = "off"
  /\ call = NoCall
  /\ locals = NoLocals
  /\ requests = <<>>
  /\ responses = <<>>
  /\ outcome = NoOutcome
  /\ warnings = <<>>
  /\ heap = 0
  /\ EngineOff

\* what `first` holds once toPathArray has returned list for path
Remember(f, path, list) == IF path \in DOMAIN f THEN f ELSE CachePut(f, path, list)

\* One call JSONPath.toPathArray(path)
ToPathArray ==
  /\ calls < MaxCalls
  /\ \E path \in QueryPaths :
       \E pa \in {toPathArray(path, cache)} :
          /\ cache' = pa.cache
          /\ first' = Remember(first, path, pa.list)
          /\ qOut' = [kind |-> "toPathArray", path |-> path, json |-> Undefined,
                      wrap |-> FALSE, hit |-> path \in DOMAIN cache, asked |-> TRUE,
                      list |-> pa.list, threw |-> FALSE, value |-> Undefined]
  /\ calls' = calls + 1
  /\ UNCHANGED <<sl, ev, auxVars, resolverVars, invokeVars>>

\* One call JSONPath({path, json, wrap})
Evaluate ==
  /\ calls < MaxCalls
  /\ \E path \in QueryPaths, json \in Docs, wrap \in BOOLEAN :
       \E r \in {evaluate(path, json, wrap, cache)} :
          /\ cache' = r.cache
          /\ first' = IF Truthy(json) THEN Remember(first, path, r.list) ELSE first
          /\ qOut' = [kind |-> "evaluate", path |-> path, json |-> json, wrap |-> wrap,
                      hit |-> path \in DOMAIN cache, asked |-> Truthy(json),
                      list |-> r.list, threw |-> r.threw, value |-> r.value]
  /\ calls' = calls + 1
  /\ UNCHANGED <<sl, ev, auxVars, resolverVars, invokeVars>>

NextQuery == ToPathArray \/ Evaluate
SpecQuery == InitQuery /\ [][NextQuery]_vars

(***************************************************************************)
(* Direct uses of the safe evaluator: new SafeScript(text) and then        *)
(* runInNewContext(context)                                                *)
(*                                                                         *)
(* The texts are of four kinds.  "arith": up to MaxOperands numbers joined *)
(* by + - * / %, with or without one parenthesised group, with or without  *)
(* spaces.  "power": numbers joined by **.  "ternary": a conditional whose *)
(* test is preceded by a chain of assignments (or by none).  "member": a   *)
(* read of a property of the object o, written with a dot, with a quoted   *)
(* name in brackets, or with the name held by the variable k.  A fifth     *)
(* kind, "invalid", is of texts that do not parse.                         *)
(***************************************************************************)
MaxOperands == 3
MaxChain == 2

\* the numbers an arithmetic text is written with, in the order they are used
OperandRows == {<<7, 2, 3, 12, 5>>, <<2, 3, 4, 8, 6>>}
PowerRow == <<2, 3, 2, 1>>
PowerOperator == <<"*", "*">>

\* the tokens of operands row[k..n] joined by ops, operands lo..hi in
\* parentheses (lo = 0: no parentheses)
RECURSIVE TokensFrom(_, _, _, _, _, _)
TokensFrom(row, k, n, ops, lo, hi) ==
  (IF lo = k THEN <<<<"(">>>> ELSE <<>>)
    \o <<NumToChars(row[k])>>
    \o (IF hi = k THEN <<<<")">>>> ELSE <<>>)
    \o (IF k = n THEN <<>> ELSE <<ops[k]>> \o TokensFrom(row, k + 1, n, ops, lo, hi))

\* the text of the tokens, a space between two tokens if spaced
RECURSIVE TextOf(_, _)
TextOf(tokens, spaced) ==
  IF tokens = <<>> THEN <<>>
  ELSE IF Len(tokens) = 1 THEN tokens[1]
  ELSE tokens[1] \o (IF spaced THEN <<" ">> ELSE <<>>) \o TextOf(Tail(tokens), spaced)

Groups(n) == {<<0, 0>>} \cup {g \in (1..n) \X (1..n) : g[1] < g[2] \/ n = 1}

EvalInput(kind, text, subs, form) == [kind |-> kind, text |-> text, subs |-> subs, form |-> form]
EmptySubs == Obj(<<>>)

ArithInputs ==
  {EvalInput("arith", TextOf(TokensFrom(row, 1, n, ops, g[1], g[2]), spaced), EmptySubs,
             [tokens |-> TokensFrom(row, 1, n, ops, g[1], g[2])]) :
     <<row, n, ops, g, spaced>> \in
       {x \in OperandRows \X (1..MaxOperands) \X SeqsUpTo(ArithmeticOperators, MaxOperands - 1)
                \X ((0..MaxOperands) \X (0..MaxOperands)) \X BOOLEAN :
          Len(x[3]) = x[2] - 1 /\ x[4] \in Groups(x[2])}}

PowerInputs ==
  {EvalInput("power", TextOf(TokensFrom(PowerRow, 1, n, [k \in 1..(n - 1) |-> PowerOperator],
                                        0, 0), spaced),
             EmptySubs,
             [tokens |-> TokensFrom(PowerRow, 1, n, [k \in 1..(n - 1) |-> PowerOperator], 0, 0)]) :
     <<n, spaced>> \in (2..MaxOperands) \X BOOLEAN}

\* The operands a ternary text is written with: the text and the node it
\* stands for
OperandB == [text |-> <<"b">>, node |-> IdentifierNode(<<"b">>)]
OperandC == [text |-> <<"c">>, node |-> IdentifierNode(<<"c">>)]
OperandD == [text |-> <<"d">>, node |-> IdentifierNode(<<"d">>)]
OperandSum ==
  [text |-> <<"b", " ", "+", " ", "1">>,
   node |-> BinaryNode(<<"+">>, IdentifierNode(<<"b">>), LiteralNode(Num(1), <<"1">>))]
OperandZero == [text |-> <<"0">>, node |-> LiteralNode(Num(0), <<"0">>)]
TestOperands == {OperandB, OperandSum, OperandZero}
ChainTargets == <<<<"a">>, <<"x">>, <<"y">>>>
ChainOperators == {<<"=">>, <<"+", "=">>}

\* target[1] op[1] target[2] op[2] ... test ? consequent : alternate
RECURSIVE ChainText(_, _)
ChainText(ops, k) ==
  IF k > Len(ops) THEN <<>>
  ELSE ChainTargets[k] \o <<" ">> \o ops[k] \o <<" ">> \o ChainText(ops, k + 1)
TernaryText(ops, test) ==
  ChainText(ops, 1) \o test.text \o <<" ", "?", " ">> \o OperandC.text \o <<" ", ":",
      " ">> \o OperandD.text

TernarySubs ==
  Obj(<<<<<<"a">>, Num(0)>>, <<<<"x">>, Num(0)>>, <<<<"y">>, Num(0)>>, <<<<"b">>, Num(1)>>, <<<<"c">>, Num(10)>>,
        <<<<"d">>, Num(20)>>>>)

TernaryInputs ==
  {EvalInput("ternary", TernaryText(ops, test), TernarySubs, [ops |-> ops, test |-> test]) :
     <<ops, test>> \in SeqsUpTo(ChainOperators, MaxChain) \X TestOperands}

\* The names a member text reads: the blocked ones, one more that every
\* object inherits, and one that nothing inherits
NameX == <<"x">>
MemberNames == BLOCKED_PROTO_PROPERTIES \cup {<<"t", "o", "S", "t", "r", "i", "n", "g">>, NameX}
OwnValue == Num(41)
\* the object o: with the name as an own property, or with another one only
TargetObject(name, own) ==
  IF own THEN Obj(<<<<<<"y">>, Num(1)>>, <<name, OwnValue>>>>) ELSE Obj(<<<<<<"y">>, Num(1)>>>>)
MemberSubs(name, own) == Obj(<<<<<<"o">>, TargetObject(name, own)>>, <<<<"k">>, Str(name)>>>>)
MemberText(name, access) ==
  CASE access = "dot" -> <<"o", ".">> \o name
    [] access = "quoted" -> <<"o", "[", "'">> \o name \o <<"'", "]">>
    [] access = "variable" -> <<"o", "[", "k", "]">>
Accesses == {"dot", "quoted", "variable"}

MemberInputs ==
  {EvalInput("member", MemberText(name, access), MemberSubs(name, own),
             [name |-> name, own |-> own, access |-> access]) :
     <<name, own, access>> \in MemberNames \X BOOLEAN \X Accesses}

\* texts that do not parse
InvalidInputs ==
  {EvalInput("invalid", text, EmptySubs, [tokens |-> <<>>]) : text \in {<<"2", " ",
      "+">>, <<"(", "7">>, <<"7", " ", "%", " ", ")">>}}

\* The operands a logical text is written with.  The assignment is written
\* in parentheses and bare: bare, it is the whole text that is the
\* assignment, as its operator binds less than || and &&.
LogicalLefts == {<<"1">>, <<"0">>, <<"b">>, <<"z">>}
LogicalRights ==
  {<<"(", "a", " ", "=", " ", "5", ")">>, <<"a", " ", "=", " ", "5">>, <<"u">>, <<"b">>}
LogicalOperators == {<<"|", "|">>, <<"&", "&">>}
\* u is not bound
LogicalSubs ==
  Obj(<<<<<<"a">>, Num(0)>>, <<<<"b">>, Num(1)>>, <<<<"z">>, Num(0)>>>>)
LogicalText(left, op, right) == left \o <<" ">> \o op \o <<" ">> \o right
LogicalInputs ==
  {EvalInput("logical", LogicalText(left, op, right), LogicalSubs,
             [left |-> left, op |-> op, right |-> right]) :
     <<left, op, right>> \in LogicalLefts \X LogicalOperators \X LogicalRights}

\* The texts of calls: f returns its first argument and g its last, n is
\* null, a and b are numbers and u is not bound.
CallSubs ==
  Obj(<<<<<<"a">>, Num(0)>>, <<<<"b">>, Num(1)>>, <<<<"f">>, Fn("first")>>,
        <<<<"g">>, Fn("last")>>, <<<<"n">>, Null>>>>)
CallCallees ==
  {<<"f">>, <<"g">>, <<"a">>, <<"u">>, <<"n", ".", "x">>, <<"(", "a", " ", "=", " ", "f", ")">>}
CallArguments ==
  {<<>>, <<"a">>, <<"u">>, <<"b", ",", " ", "a">>, <<"(", "a", " ", "=", " ", "5", ")", ",",
      " ", "a">>, <<"a", ",">>, <<"a", " ", "b">>}
CallText(callee, arguments) == callee \o <<"(">> \o arguments \o <<")">>
CallInputs ==
  {EvalInput("call", CallText(callee, arguments), CallSubs,
             [callee |-> callee, arguments |-> arguments]) :
     <<callee, arguments>> \in CallCallees \X CallArguments}

EvalInputs ==
  ArithInputs \cup PowerInputs \cup TernaryInputs \cup MemberInputs \cup InvalidInputs
    \cup LogicalInputs \cup CallInputs

HandlersOff ==
  /\ cache = EmptyCache
  /\ rPc = "off"
  /\ rc = [shape |-> "none", pieces |-> <<>>, input |-> Undefined,
           jobContext |-> Undefined, options |-> Undefined]
  /\ rOut = NoOut
  /\ rAgain = NoOut
  /\ hPc = "off"
  /\ call = NoCall
  /\ locals = NoLocals
  /\ requests = <<>>
  /\ responses = <<>>
  /\ outcome = NoOutcome
  /\ warnings = <<>>
  /\ heap = 0

InitEval ==
  /\ HandlersOff
  /\ calls = 0
  /\ qOut = NoQuery
  /\ first = EmptyCache
  /\ sl = NoSlice
  /\ built = <<>>
  /\ race = NoRace
  /\ pl = NoPlugins
  /\ \E inp \in EvalInputs :
       ev = [pc |-> "ready", kind |-> inp.kind, text |-> inp.text, subs |-> inp.subs,
             form |-> inp.form, ast |-> NoNode, threw |-> FALSE, error |-> "",
             value |-> Undefined, subsOut |-> inp.subs]

\* new SafeScript(text): the text is parsed, and the constructor throws if it
\* does not parse
Construct ==
  /\ ev.pc = "ready"
  /\ \E p \in {parse(ev.text)} :
       ev' = IF p.ok THEN [ev EXCEPT !.pc = "parsed", !.ast = p.node]
             ELSE [ev EXCEPT !.pc = "failed", !.threw = TRUE, !.error = "Error"]
  /\ UNCHANGED <<cache, calls, qOut, first, sl, auxVars, resolverVars, invokeVars>>

\* script.runInNewContext(context)
RunInNewContext ==
  /\ ev.pc = "parsed"
  /\ \E r \in {evalAst(ev.ast, ev.subs)} :
       ev' = [ev EXCEPT !.pc = "done", !.threw = r.threw, !.error = r.error,
                        !.value = r.value, !.subsOut = r.subs]
  /\ UNCHANGED <<cache, calls, qOut, first, sl, auxVars, resolverVars, invokeVars>>

NextEval == Construct \/ RunInNewContext
SpecEval == InitEval /\ [][NextEval]_vars

(***************************************************************************)
(* Queries with a slice: $.a[start:end:step] asked of a document whose a   *)
(* is an array of MaxLen elements at most, or is no array                  *)
(***************************************************************************)
MaxLen == 5

\* A part of a slice is <<>> when it is left out and <<n>> when it is the
\* number n; as it is written: nothing, or the numeral
Omitted == <<>>
SlicePart(p) ==
  IF p = Omitted THEN <<>>
  ELSE IF p[1] < 0 THEN <<"-">> \o NumToChars(0 - p[1])
  ELSE NumToChars(p[1])
SlicePath(start, end, step) ==
  <<"$", ".", "a", "[">> \o SlicePart(start) \o <<":">> \o SlicePart(end)
    \o (IF step = Omitted THEN <<>> ELSE <<":">> \o SlicePart(step)) \o <<"]">>

SliceStarts == {Omitted, <<0>>, <<1>>, <<2>>, <<-1>>, <<-2>>, <<-7>>}
SliceEnds == {Omitted, <<0>>, <<1>>, <<3>>, <<-1>>, <<-4>>, <<9>>}
SliceSteps == {Omitted, <<1>>, <<2>>}
\* the array of len elements, each element being its own index
IndexArray(len) == Arr([k \in 1..len |-> Num(k - 1)])
\* values that are no arrays
NonArrays == {Str(<<"a", "b", "c", "d",
    "e">>), Obj(<<<<<<"0">>, Num(0)>>, <<<<"1">>, Num(1)>>>>), Num(5)}
SliceDoc(target) == Obj(<<<<KeyA, target>>>>)

InitSlice ==
  /\ HandlersOff
  /\ calls = 0
  /\ qOut = NoQuery
  /\ first = EmptyCache
  /\ ev = NoEval
  /\ built = <<>>
  /\ race = NoRace
  /\ pl = NoPlugins
  /\ \E start \in SliceStarts, end \in SliceEnds, step \in SliceSteps,
        target \in {IndexArray(len) : len \in 0..MaxLen} \cup NonArrays :
       sl = [pc |-> "ready", start |-> start, end |-> end, step |-> step,
             target |-> target, threw |-> FALSE, value |-> Undefined]

\* One call JSONPath({path: '$.a[start:end:step]', json: {a: target}, wrap: true})
Slice ==
  /\ sl.pc = "ready"
  /\ \E r \in {evaluate(SlicePath(sl.start, sl.end, sl.step), SliceDoc(sl.target), TRUE, cache)} :
       /\ sl' = [sl EXCEPT !.pc = "done", !.threw = r.threw, !.value = r.value]
       /\ cache' = r.cache
  /\ UNCHANGED <<calls, qOut, first, ev, auxVars, resolverVars, invokeVars>>

NextSlice == Slice
SpecSlice == InitSlice /\ [][NextSlice]_vars

(***************************************************************************)
(* Queries with a filter or a script segment, made one after another with  *)
(* the eval option, a sandbox and ignoreEvalErrors chosen by the caller.   *)
(* A path of these queries is `$`, the names of a chain of properties,     *)
(* then `.*` or not, then the segment between brackets, then one more name *)
(* or none.                                                                *)
(***************************************************************************)
MaxQueries == 2

KeyItems == <<"i", "t", "e", "m", "s">>
KeyC == <<"c">>
KeyX == <<"x">>
KeyLimit == <<"l", "i", "m", "i", "t">>
FilterAbove == <<"?", "(", "@", ".", "b", ">", "1", ")">>
FilterLimit == <<"?", "(", "@", ".", "b", ">", "l", "i", "m", "i", "t", ")">>
FilterDeep == <<"?", "(", "@", ".", "c", ".", "a", ".", "a", ">", "1", ")">>
FilterBroken == <<"?", "(", "@", ".", "b", ">", ")">>
ScriptLast == <<"(", "@", ".", "l", "e", "n", "g", "t", "h", "-", "1", ")">>
ScriptName == <<"(", "@", ".", "k", ")">>
EvalSegments == {FilterAbove, FilterLimit, FilterDeep, FilterBroken, ScriptLast, ScriptName}

\* three items in an array, beside the name of a property
DocItems ==
  Obj(<< <<KeyItems, Arr(<< Obj(<< <<KeyB, Num(1)>> >>),
                            Obj(<< <<KeyB, Num(2)>>, <<KeyC, Num(0)>> >>),
                            Obj(<< <<KeyB, Num(3)>> >>) >>)>>,
         <<KeyK, Str(KeyItems)>> >>)
\* a mapping whose one entry holds a property named like a filter
DocLiteral == Obj(<< <<KeyX, Obj(<< <<FilterAbove, Num(1)>>, <<KeyB, Num(5)>> >>)>> >>)
FilterDocs == {DocItems, DocLiteral}

FilterQuery(names, star, segment, rest) ==
  [names |-> names, star |-> star, segment |-> segment, rest |-> rest]
RECURSIVE DotNames(_)
DotNames(names) ==
  IF names = <<>> THEN <<>> ELSE <<".">> \o Head(names) \o DotNames(Tail(names))
FilterPath(q) ==
  <<"$">> \o DotNames(q.names) \o (IF q.star THEN <<".", "*">> ELSE <<>>)
  \o <<"[">> \o q.segment \o <<"]">> \o DotNames(q.rest)

\* the queries made of the array of items
ItemQueries ==
  {FilterQuery(<<KeyItems>>, FALSE, s, <<>>) : s \in EvalSegments}
  \cup {FilterQuery(<<KeyItems>>, FALSE, FilterAbove, <<KeyB>>),
        FilterQuery(<<>>, FALSE, ScriptName, <<>>),
        FilterQuery(<<KeyC>>, FALSE, FilterAbove, <<>>),
        FilterQuery(<<KeyItems>>, TRUE, FilterAbove, <<>>)}
\* the queries made of the mapping
LiteralQueries ==
  {FilterQuery(<<>>, TRUE, FilterAbove, <<>>),
   FilterQuery(<<>>, FALSE, FilterAbove, <<>>)}
FilterCases ==
  {[query |-> q, json |-> DocItems] : q \in ItemQueries}
  \cup {[query |-> q, json |-> DocLiteral] : q \in LiteralQueries}

\* the sandbox the caller supplies: an empty one, or one with a variable
NoVariables == Obj(<<>>)
WithLimit == Obj(<< <<KeyLimit, Num(2)>> >>)
QueryOptions(eval, sandbox, ignoreEvalErrors) ==
  [eval |-> eval, sandbox |-> sandbox, ignoreEvalErrors |-> ignoreEvalErrors]
\* the eval option: left out, 'safe', true, false, and a word that names no
\* way of evaluating
FilterOptions ==
  {QueryOptions(Undefined, NoVariables, FALSE),
   QueryOptions(Str(<<"s", "a", "f", "e">>), NoVariables, FALSE),
   QueryOptions(Str(<<"s", "a", "f", "e">>), WithLimit, TRUE),
   QueryOptions(Bool(TRUE), WithLimit, FALSE),
   QueryOptions(Bool(FALSE), NoVariables, FALSE),
   QueryOptions(Bool(FALSE), WithLimit, TRUE),
   QueryOptions(Str(<<"o", "f", "f">>), NoVariables, FALSE)}

InitFilter ==
  /\ HandlersOff
  /\ cache = EmptyCache
  /\ calls = 0
  /\ qOut = NoQuery
  /\ first = EmptyCache
  /\ sl = NoSlice
  /\ ev = NoEval
  /\ built = <<>>
  /\ race = NoRace
  /\ pl = NoPlugins

\* One call JSONPath({path, json, eval, sandbox, ignoreEvalErrors}), wrap
\* being left at its default, true
Query ==
  /\ calls < MaxQueries
  /\ \E c \in FilterCases, o \in FilterOptions :
       \E r \in {evaluateOf(Instance(o.eval, o.sandbox, o.ignoreEvalErrors),
                            FilterPath(c.query), c.json, TRUE, cache)} :
          /\ cache' = r.cache
          /\ built' = built \o r.built
          /\ qOut' = [kind |-> "query", query |-> c.query, path |-> FilterPath(c.query),
                      json |-> c.json, eval |-> o.eval, sandbox |-> o.sandbox,
                      ignoreEvalErrors |-> o.ignoreEvalErrors,
                      threw |-> r.threw, error |-> r.error, value |-> r.value,
                      sandboxAfter |-> r.sandbox, builtBefore |-> built,
                      cacheBefore |-> cache]
  /\ calls' = calls + 1
  /\ UNCHANGED <<first, sl, ev, race, pl, resolverVars, invokeVars>>

NextFilter == Query
SpecFilter == InitFilter /\ [][NextFilter]_vars

(***************************************************************************)
(* Two callers of the cache                                                *)
(*                                                                         *)
(* Each of two callers looks up one key of JSONPath.cache, a raw path in   *)
(* toPathArray or the key of a script in _eval, in the steps of the code:  *)
(* the test of the cache, the computation of the value on a miss, the      *)
(* assignment to the cache, and the reading of the cache for what is       *)
(* returned.  The steps of the two callers are taken in any order.  The    *)
(* lists and scripts are objects: race.objects holds them, the cache and   *)
(* the callers hold their numbers.  A caller of toPathArray is evaluate,   *)
(* which then shifts the `$` off the list it was given.                    *)
(***************************************************************************)
Callers == {1, 2}
PathJob(expr) == [kind |-> "path", key |-> expr, eval |-> Undefined, code |-> <<>>]
ScriptJob(eval, code) ==
  [kind |-> "script", key |-> scriptCacheKey(eval, code), eval |-> eval, code |-> code]
RaceJobs ==
  {PathJob(<<"$", ".", "a">>), PathJob(<<"$", ".", "a", ".", "b">>),
   ScriptJob(Str(<<"s", "a", "f", "e">>), <<"@", ".", "b", ">",
       "1">>), ScriptJob(Bool(TRUE), <<"@", ".", "b", ">", "1">>)}
\* the value the scripts of the callers are run on
RaceValue == Obj(<< <<KeyB, Num(2)>> >>)
RaceSandbox == SandboxFor(Obj(<<>>), RaceValue, Num(0), Null, Null, RaceValue)

\* what a caller alone computes for its key
Computed(job) ==
  IF job.kind = "path" THEN normalizePath(job.key)
  ELSE SafeScript(ScriptText(job.code), parse(ScriptText(job.code)).node)

\* JSONPath.cache as the queries see it: the objects under their keys
CacheOf(objects, refs) == [k \in DOMAIN refs |-> objects[refs[k]]]

\* A faulty return: the list of the cache itself, not a copy of it
CopyOfShared(objects, id) == [objects |-> objects, id |-> id]
\* cache[expr].concat(): a new list with the elements of the one in the cache
CopyOf(objects, id) == [objects |-> Append(objects, objects[id]), id |-> Len(objects) + 1]

InitRace ==
  /\ HandlersOff
  /\ cache = EmptyCache
  /\ calls = 0
  /\ qOut = NoQuery
  /\ first = EmptyCache
  /\ sl = NoSlice
  /\ ev = NoEval
  /\ built = <<>>
  /\ pl = NoPlugins
  /\ \E j1 \in RaceJobs, j2 \in RaceJobs :
       race = [job |-> <<j1, j2>>,
               pc |-> <<"check", "check">>,
               objects |-> <<>>,
               refs |-> [k \in {} |-> 0],
               made |-> <<0, 0>>,
               result |-> <<0, 0>>,
               given |-> <<Undefined, Undefined>>,
               missed |-> <<FALSE, FALSE>>]

RaceFrame == UNCHANGED <<calls, qOut, first, sl, ev, built, pl, resolverVars, invokeVars>>

\* if (cache[expr]) / if (!JSONPath.cache[scriptCacheKey])
Check(c) ==
  /\ race.pc[c] = "check"
  /\ race' = [race EXCEPT !.pc[c] = IF race.job[c].key \in DOMAIN race.refs THEN "return"
                                    ELSE "compute",
                          !.missed[c] = race.job[c].key \notin DOMAIN race.refs]
  /\ UNCHANGED cache
  /\ RaceFrame

\* the normalisation of the path into a new list / new this.safeVm.Script(script)
Compute(c) ==
  /\ race.pc[c] = "compute"
  /\ race' = [race EXCEPT !.pc[c] = "insert",
                          !.objects = Append(race.objects, Computed(race.job[c])),
                          !.made[c] = Len(race.objects) + 1]
  /\ UNCHANGED cache
  /\ RaceFrame

\* cache[expr] = exprList / JSONPath.cache[scriptCacheKey] = the new script
Insert(c) ==
  /\ race.pc[c] = "insert"
  /\ \E refs \in {[k \in DOMAIN race.refs \cup {race.job[c].key} |->
                     IF k = race.job[c].key THEN race.made[c] ELSE race.refs[k]]} :
       /\ race' = [race EXCEPT !.pc[c] = "return", !.refs = refs]
       /\ cache' = CacheOf(race.objects, refs)
  /\ RaceFrame

\* return cache[expr].concat() /
\* return JSONPath.cache[scriptCacheKey].runInNewContext(this.currSandbox)
Return(c) ==
  /\ race.pc[c] = "return"
  /\ IF race.job[c].kind = "path"
     THEN \E r \in {CopyOf(race.objects, race.refs[race.job[c].key])} :
            race' = [race EXCEPT !.pc[c] = "evaluate",
                                 !.objects = r.objects,
                                 !.result[c] = r.id,
                                 !.given[c] = r.objects[r.id]]
     ELSE race' = [race EXCEPT !.pc[c] = "done",
                               !.given[c] =
                                 runInNewContext(race.objects[race.refs[race.job[c].key]],
                                                 RaceSandbox).value]
  /\ UNCHANGED cache
  /\ RaceFrame

\* evaluate: if (exprList[0] === '$' && exprList.length > 1) exprList.shift()
Shift(c) ==
  /\ race.pc[c] = "evaluate"
  /\ \E list \in {race.objects[race.result[c]]} :
       \E objects \in {IF Len(list) > 1 /\ list[1] = <<"$">>
                       THEN [race.objects EXCEPT ![race.result[c]] = Tail(list)]
                       ELSE race.objects} :
         /\ race' = [race EXCEPT !.pc[c] = "done", !.objects = objects]
         /\ cache' = CacheOf(objects, race.refs)
  /\ RaceFrame

NextRace == \E c \in Callers : Check(c) \/ Compute(c) \/ Insert(c) \/ Return(c) \/ Shift(c)
SpecRace == InitRace /\ [][NextRace]_vars

(***************************************************************************)
(* The registry of plugins                                                 *)
(*                                                                         *)
(* Plugins.register is called with lists of plugins: the three of the      *)
(* bundle, a second plugin under the name of the first, a plugin under a   *)
(* name every object inherits, and a plugin without a name.  An init       *)
(* function is known by a word; what it does to the hooks and to the       *)
(* operator tables is what the init of that plugin does in the code.       *)
(***************************************************************************)
MaxRegisters == 3

Plugin(name, init) == [name |-> name, init |-> init]
ternary == Plugin(Str(<<"t", "e", "r", "n", "a", "r", "y">>), "ternary")
regexPlugin == Plugin(Str(<<"r", "e", "g", "e", "x">>), "regex")
assignmentPlugin == Plugin(Str(<<"a", "s", "s", "i", "g", "n", "m", "e", "n", "t">>),
    "assignment")
\* another plugin that calls itself ternary
ternaryAgain == Plugin(Str(<<"t", "e", "r", "n", "a", "r", "y">>), "other")
\* a plugin named like a property every object inherits
constructorPlugin == Plugin(Str(<<"c", "o", "n", "s", "t", "r", "u", "c", "t", "o", "r">>),
    "other")
\* an object without a name
nameless == Plugin(Undefined, "other")
PluginLists ==
  {<<ternary>>, <<regexPlugin, assignmentPlugin>>, <<ternaryAgain>>, <<constructorPlugin>>,
   <<nameless>>, <<assignmentPlugin, nameless, regexPlugin>>}

\* Hooks.prototype.add(name, callback) for one name and a callback
HooksAdd(hooks, name, callback) ==
  [n \in DOMAIN hooks \cup {name} |->
     IF n = name THEN Append(IF name \in DOMAIN hooks THEN hooks[name] ELSE <<>>, callback)
     ELSE hooks[n]]

\* Jsep.binary_ops before any plugin has added an operator
CoreBinaryOps == {binary_ops[k] : k \in {j \in 1..Len(binary_ops) : binary_ops[j][2] # 9}}
\* Jsep.addBinaryOp(op_name, precedence, true) on the two tables
addBinaryOp(tables, op_name, precedence) ==
  [ops |-> {o \in tables.ops : o[1] # op_name} \cup {<<op_name, precedence>>},
   right |-> tables.right \cup {op_name}]
RECURSIVE AddAssignmentOperators(_, _)
AddAssignmentOperators(tables, ops) ==
  IF ops = {} THEN tables
  ELSE LET op == CHOOSE o \in ops : TRUE
       IN AddAssignmentOperators(addBinaryOp(tables, op, binaryPrecedence(<<"=">>)),
                                 ops \ {op})

\* plugin.init(this.jsep): what each init function does to the parser
RunInit(init, p) ==
  CASE init = "ternary" ->
         [p EXCEPT !.hooks = HooksAdd(p.hooks, "after-expression", "gobbleTernary")]
    [] init = "regex" ->
         [p EXCEPT !.hooks = HooksAdd(p.hooks, "gobble-token", "gobbleRegexLiteral")]
    [] init = "assignment" ->
         [p EXCEPT !.tables = AddAssignmentOperators(p.tables, assignmentOperators),
                   !.hooks = HooksAdd(HooksAdd(HooksAdd(p.hooks,
                                 "gobble-token", "gobbleUpdatePrefix"),
                                 "after-token", "gobbleUpdatePostfix"),
                                 "after-expression", "gobbleAssignment")]
    [] OTHER -> [p EXCEPT !.hooks = HooksAdd(p.hooks, "after-token", "other")]

\* this.registered[plugin.name], as a condition, registered being an object
\* made by {}
IsRegistered(registered, name) == name \in DOMAIN registered \/ name \in InheritedNames

\* Plugins.prototype.register(...plugins): the plugins from the k-th on.
\* p.inits lists the plugins whose init was run, p.offered the plugins that
\* were of the format asked for, both in order.
RECURSIVE register(_, _, _)
register(plugins, k, p) ==
  IF k > Len(plugins) THEN [p EXCEPT !.threw = ""]
  ELSE LET plugin == plugins[k]
       IN IF ~Truthy(plugin.name)
          THEN [p EXCEPT !.threw = "Error: Invalid JSEP plugin format"]
          ELSE IF IsRegistered(p.registered, plugin.name.s)
          THEN register(plugins, k + 1, [p EXCEPT !.offered = Append(p.offered, plugin)])
          ELSE Let(RunInit(plugin.init, p), LAMBDA q :
                 register(plugins, k + 1,
                          [q EXCEPT !.offered = Append(q.offered, plugin),
                                    !.inits = Append(q.inits, plugin),
                                    !.registered =
                                      [n \in DOMAIN q.registered \cup {plugin.name.s} |->
                                         IF n = plugin.name.s THEN plugin
                                         ELSE q.registered[n]]]))

\* new Hooks(), new Plugins(Jsep) and the operator tables of the class
NewParser ==
  [hooks |-> [n \in {} |-> <<>>],
   registered |-> [n \in {} |-> <<>>],
   tables |-> [ops |-> CoreBinaryOps, right |-> {<<"*", "*">>}],
   inits |-> <<>>,
   offered |-> <<>>,
   threw |-> "",
   asked |-> <<>>,
   before |-> <<>>]

InitPlugins ==
  /\ HandlersOff
  /\ cache = EmptyCache
  /\ calls = 0
  /\ qOut = NoQuery
  /\ first = EmptyCache
  /\ sl = NoSlice
  /\ ev = NoEval
  /\ built = <<>>
  /\ race = NoRace
  /\ pl = NewParser

\* One call jsep.plugins.register(...plugins)
Register ==
  /\ calls < MaxRegisters
  /\ \E plugins \in PluginLists :
       pl' = [register(plugins, 1, pl) EXCEPT
                !.asked = plugins,
                !.before = [hooks |-> pl.hooks, tables |-> pl.tables, inits |-> pl.inits,
                            registered |-> pl.registered]]
  /\ calls' = calls + 1
  /\ UNCHANGED <<cache, qOut, first, sl, ev, built, race, resolverVars, invokeVars>>

NextPlugins == Register
SpecPlugins == InitPlugins /\ [][NextPlugins]_vars

(***************************************************************************)
(* Properties of the handlers                                              *)
(***************************************************************************)
\* sub occurs in s
Contains(s, sub) ==
  \E i \in 1..(Len(s) - Len(sub) + 1) : SubSeq(s, i, i + Len(sub) - 1) = sub

\* What a parameter of the call under way resolves to, read off the call: a
\* placeholder for the field `a` of the job's data gives that field, or the
\* marker when the data has no such field; any other text is itself.
ExpectedParam(k) ==
  IF ObjGet(call.params, k) = Str(<<"{", "$", ".", "a", "}">>)
  THEN IF OptGet(call.context.data, KeyA) = Undefined THEN Str(NO_VALUE_PLACEHOLDER)
       ELSE OptGet(call.context.data, KeyA)
  ELSE ObjGet(call.params, k)

\* The base address of the call under way: the address parameter `p/` when
\* supplied, else the ADDRESS of the environment, `h` or `h/`, without the
\* trailing slash.
ExpectedAddress == IF ObjGet(call.params, AddressKey) # Undefined THEN <<"p">> ELSE <<"h">>

UsersUrl == ExpectedAddress \o <<"/", "v", "1", ".", "0", "/", "u", "s", "e", "r", "s", "/">>
RemovalUrl ==
  ExpectedAddress \o <<"/", "v", "1", ".", "0", "/", "r", "o", "l", "e", "M", "a", "n", "a",
      "g", "e", "m", "e", "n", "t", "/", "d", "i", "r", "e", "c", "t", "o", "r", "y", "/",
      "r", "o", "l", "e", "A", "s", "s", "i", "g", "n", "m", "e", "n", "t", "S", "c", "h",
      "e", "d", "u", "l", "e", "R", "e", "q", "u", "e", "s", "t", "s">>

\* The i-th request is answered by the i-th response.
IsLookupAt(i) == i <= Len(requests) /\ requests[i].method = "GET"
IsRemovalAt(i) == i <= Len(requests) /\ requests[i].url = RemovalUrl

BearerTokenSupplied ==
  /\ call.handler = "invoke"
  /\ OptGet(call.context.secrets, BEARER_AUTH_TOKEN) \notin {Undefined, Str(<<>>)}

BothResponsesOk ==
  /\ Len(responses) = 2
  /\ responses[1].ok
  /\ responses[2].ok

StatusLine(response) ==
  (CASE response.status = 400 -> <<"4", "0", "0">>
     [] response.status = 404 -> <<"4", "0", "4">>
     [] response.status = 429 -> <<"4", "2", "9">>
     [] response.status = 503 -> <<"5", "0", "3">>) \o <<" ">> \o response.statusText

LookupFailureMessage(response) ==
  <<"F", "a", "i", "l", "e", "d", " ", "t", "o", " ", "g", "e", "t", " ", "u", "s", "e", "r",
      " ">> \o ExpectedParam(UserPrincipalNameKey).s \o <<":", " ">>
  \o StatusLine(response)

RemovalFailureMessage(response) ==
  <<"F", "a", "i", "l", "e", "d", " ", "t", "o", " ", "r", "e", "m", "o", "v", "e", " ", "r",
      "o", "l", "e", " ">> \o ExpectedParam(RoleIdKey).s \o <<" ", "f", "r", "o", "m", " ",
      "u", "s", "e", "r", " ">>
  \o ExpectedParam(UserPrincipalNameKey).s \o <<":", " ">> \o StatusLine(response)

\* the requests sent to the token endpoint `k` of the environment
TokenRequests == Len(SelectSeq(requests, LAMBDA r : r.url = <<"k">>))

\* How invoke has settled when step i received a non-ok response: it rejected
\* with the message, and count requests have been issued in all.
RejectedAfter(message, count) ==
  /\ hPc = "done"
  /\ outcome.kind = "threw"
  /\ outcome.value.message = message
  /\ Len(requests) = count

\* C2 as stated: whenever the lookup or the removal receives a non-ok
\* response, invoke rejects with that step's message, exactly 1 request has
\* been issued after a failed lookup and exactly 2 after a failed removal,
\* and no 'success' result is returned.
C2_AsStated ==
  call.handler = "invoke" =>
    \A i \in 1..Len(responses) :
      ~responses[i].ok =>
        /\ IsLookupAt(i) => RejectedAfter(LookupFailureMessage(responses[i]), 1)
        /\ IsRemovalAt(i) => RejectedAfter(RemovalFailureMessage(responses[i]), 2)

\* C2, amended: whenever the lookup or the removal receives a non-ok
\* response, invoke rejects with that step's message, no request follows the
\* failed one (1 request after a failed lookup and 2 after a failed removal,
\* not counting the token request the OAuth2 client-credentials flow sends
\* first), and no 'success' result is returned.
C2_RejectsWithoutFurtherRequest ==
  call.handler = "invoke" =>
    \A i \in 1..Len(responses) :
      ~responses[i].ok =>
        /\ IsLookupAt(i) =>
             /\ RejectedAfter(LookupFailureMessage(responses[i]), 1 + TokenRequests)
             /\ i = Len(requests)
        /\ IsRemovalAt(i) =>
             /\ RejectedAfter(RemovalFailureMessage(responses[i]), 2 + TokenRequests)
             /\ i = Len(requests)

\* A removal that failed after a lookup that succeeded
C2_Witness ==
  /\ call.handler = "invoke"
  /\ Len(responses) = 2
  /\ responses[1].ok
  /\ ~responses[2].ok
  /\ IsRemovalAt(2)
  /\ outcome.kind = "threw"

\* the parameter is missing or empty after template resolution
MissingOrEmpty(k) == ExpectedParam(k) \in {Undefined, Str(<<>>)}

RejectedWithoutRequest(message) ==
  /\ hPc = "done"
  /\ outcome.kind = "threw"
  /\ outcome.value.message = message
  /\ requests = <<>>

\* C3: if userPrincipalName is missing or empty after template resolution,
\* invoke rejects with 'userPrincipalName is required'; otherwise, if roleId
\* is missing or empty, it rejects with 'roleId is required'; in both cases no
\* HTTP request (token, lookup or removal) has been issued.
C3_RequiredParameters ==
  call.handler = "invoke" =>
    /\ MissingOrEmpty(UserPrincipalNameKey)
         => RejectedWithoutRequest(<<"u", "s", "e", "r", "P", "r", "i", "n", "c", "i", "p",
             "a", "l", "N", "a", "m", "e", " ", "i", "s", " ", "r", "e", "q", "u", "i", "r",
             "e", "d">>)
    /\ (~MissingOrEmpty(UserPrincipalNameKey) /\ MissingOrEmpty(RoleIdKey))
         => RejectedWithoutRequest(<<"r", "o", "l", "e", "I", "d", " ", "i", "s", " ", "r",
             "e", "q", "u", "i", "r", "e", "d">>)

\* A roleId placeholder that resolved to the empty string, with client
\* credentials configured
C3_Witness ==
  /\ call.handler = "invoke"
  /\ ~MissingOrEmpty(UserPrincipalNameKey)
  /\ ObjGet(call.params, RoleIdKey) = Str(<<"{", "$", ".", "a", "}">>)
  /\ MissingOrEmpty(RoleIdKey)
  /\ OptGet(call.context.secrets, OAUTH2_CLIENT_CREDENTIALS_CLIENT_SECRET) # Undefined
  /\ outcome.kind = "threw"

\* the member `"name":"text"` of a JSON object, text holding no quote
Member(name, text) == <<"\"">> \o name \o <<"\"", ":", "\"">> \o text \o <<"\"">>

\* C4: the body of the removal request always has action 'adminRemove',
\* roleDefinitionId equal to the resolved roleId, and directoryScopeId and
\* justification equal to the caller's values when supplied and to the
\* defaults '/' and 'Removed by SGNL.ai' when the parameter is absent.
C4_RemovalBody ==
  call.handler = "invoke" =>
    \A i \in 1..Len(requests) :
      requests[i].url = RemovalUrl =>
        /\ Contains(requests[i].body.s, Member(<<"a", "c", "t", "i", "o", "n">>, <<"a", "d",
            "m", "i", "n", "R", "e", "m", "o", "v", "e">>))
        /\ Contains(requests[i].body.s,
                    Member(<<"r", "o", "l", "e", "D", "e", "f", "i", "n", "i", "t", "i", "o",
                        "n", "I", "d">>, ExpectedParam(RoleIdKey).s))
        /\ Contains(requests[i].body.s,
                    CASE ObjGet(call.params, DirectoryScopeIdKey) = Undefined
                           -> Member(DirectoryScopeIdKey, <<"/">>)
                      [] ObjGet(call.params, DirectoryScopeIdKey) = Str(<<>>)
                           -> Member(DirectoryScopeIdKey, <<>>)
                      [] ObjGet(call.params, DirectoryScopeIdKey) = Str(<<"/", "a", "u", "/",
                          "7">>)
                           -> Member(DirectoryScopeIdKey, <<"/", "a", "u", "/", "7">>))
        /\ Contains(requests[i].body.s,
                    CASE ObjGet(call.params, JustificationKey) = Undefined
                           -> Member(JustificationKey, <<"R", "e", "m", "o", "v", "e", "d",
                               " ", "b", "y", " ", "S", "G", "N", "L", ".", "a", "i">>)
                      [] ObjGet(call.params, JustificationKey) = Str(<<"n", "o", " ", "\"",
                          "n", "e", "e", "d", "\"">>)
                           -> Member(JustificationKey, <<"n", "o", " ", "\\", "\"", "n", "e",
                               "e", "d", "\\", "\"">>))

\* A removal request sent with the scope supplied as the empty string and
\* the justification left out
C4_Witness ==
  /\ call.handler = "invoke"
  /\ Len(requests) >= 2
  /\ requests[Len(requests)].url = RemovalUrl
  /\ ObjGet(call.params, DirectoryScopeIdKey) = Str(<<>>)
  /\ ObjGet(call.params, JustificationKey) = Undefined

\* the step that calls the error handler
ErrorHandlerCalled == call'.handler = "error" /\ call.handler # "error"

C6_RetryRequested ==
  (call.handler = "error" /\ ObjGet(call.params, ErrorKey) # Undefined) =>
    IF \/ Contains(ObjGet(call.params, ErrorKey).message, <<"4", "0", "1">>)
       \/ Contains(ObjGet(call.params, ErrorKey).message, <<"4", "0", "3">>)
    THEN outcome.kind = "threw"
    ELSE outcome = Returned(Obj(<< <<StatusKey, Str(<<"r", "e", "t", "r", "y", "_", "r", "e",
        "q", "u", "e", "s", "t", "e", "d">>)>> >>))

(***************************************************************************)
(* Properties of the template resolver                                     *)
(***************************************************************************)
Resolved == rPc \in {"done", "again"}

\* the job contexts the placeholders of the call may have been looked up in
CallContexts ==
  {resolvedJobContext(rc.jobContext, rc.options, now, uuid) :
     now \in ClockOf(rc.shape), uuid \in UuidsOf(rc.shape)}

OmitFlag == rc.options.omitNoValueForExactTemplates = Bool(TRUE)

\* what a path gives in a context: [value, found]
Lookup(path, ctx) == extractJsonPathValue(ctx, path, EmptyCache)

\* the string form of a value: a string is itself, any other value is
\* JSON-serialized
StringForm(v) == IF v.t = "str" THEN v.s ELSE JSONstringify(v)

\* the placeholder resolves to a non-empty value
ResolvesNonEmpty(path, ctx) ==
  Lookup(path, ctx).found /\ StringForm(Lookup(path, ctx).value) # <<>>

AllResolve(ps, ctx) ==
  \A i \in 1..Len(ps) : ps[i].kind = "tpl" => ResolvesNonEmpty(ps[i].text, ctx)

RECURSIVE Replaced(_, _, _)
\* the text of the pieces with each placeholder replaced: by the string form
\* of its value when found, by missing when not
Replaced(ps, ctx, missing) ==
  IF ps = <<>> THEN <<>>
  ELSE (IF Head(ps).kind = "lit" THEN Head(ps).text
        ELSE IF Lookup(Head(ps).text, ctx).found
        THEN StringForm(Lookup(Head(ps).text, ctx).value)
        ELSE missing)
       \o Replaced(Tail(ps), ctx, missing)

\* the input of the given shape with its template string replaced by text
Reshape(shape, text) ==
  CASE shape = "string" -> Str(text)
    [] shape = "mapping" -> Obj(<< <<KeyK, Str(text)>>, <<KeyN, Num(7)>> >>)
    [] shape = "array" -> Obj(<< <<KeyK, Arr(<<Str(text), Null>>)>> >>)
    [] shape = "example" -> Obj(<< <<<<"l", "o", "g", "i", "n">>, Str(text)>> >>)

\* the same when omitNoValueForExactTemplates is true: a mapping entry or an
\* array element that resolved to the empty string or to the marker is left
\* out
ReshapeOmitting(shape, text) ==
  IF text \notin {<<>>, NO_VALUE_PLACEHOLDER} \/ shape = "string" THEN Reshape(shape, text)
  ELSE CASE shape = "mapping" -> Obj(<< <<KeyN, Num(7)>> >>)
         [] shape = "array" -> Obj(<< <<KeyK, Arr(<<Null>>)>> >>)
         [] shape = "example" -> Obj(<<>>)

ExampleHolds ==
  rc.shape = "example" =>
    /\ rOut.result = Obj(<< <<<<"l", "o", "g", "i", "n">>, Str(<<"a", "@", "b", ".", "c", "o",
        "m">>)>> >>)
    /\ rOut.errors = <<>>

MissingText == IF OmitFlag /\ Len(rc.pieces) = 1 THEN <<>> ELSE <<"{", "N", "o", " ", "V",
    "a", "l", "u", "e", "}">>

ExpectedResult(ctx) ==
  IF OmitFlag THEN ReshapeOmitting(rc.shape, Replaced(rc.pieces, ctx, MissingText))
  ELSE Reshape(rc.shape, Replaced(rc.pieces, ctx, MissingText))

\* the paths of the placeholders that are not found, in order
NotFoundPaths(ps, ctx) ==
  LET missing == SelectSeq(ps, LAMBDA p : p.kind = "tpl" /\ ~Lookup(p.text, ctx).found)
  IN [i \in 1..Len(missing) |-> missing[i].text]

\* the "field not found" errors of a list, in order
NotFoundErrors(errors) == SelectSeq(errors, LAMBDA e : Contains(e, <<":", " ", "f", "i", "e",
    "l", "d", " ", "n", "o", "t", " ", "f", "o", "u", "n", "d">>))

\* C8: for every placeholder occurrence whose path is not found, exactly one
\* "field not found" error is recorded, and the occurrence is replaced by the
\* empty string if and only if the whole string is that single placeholder
\* and omitNoValueForExactTemplates is true; in every other case it is
\* replaced by the marker '{No Value}'.
C8_NotFoundPlaceholders ==
  Resolved =>
    \E ctx \in CallContexts :
      /\ NotFoundErrors(rOut.errors)
           = [i \in 1..Len(NotFoundPaths(rc.pieces, ctx)) |->
                <<"f", "a", "i", "l", "e", "d", " ", "t", "o", " ", "e", "x", "t", "r", "a",
                    "c", "t", " ", "f", "i", "e", "l", "d", " ",
                    "'">> \o NotFoundPaths(rc.pieces, ctx)[i]
                \o <<"'", ":", " ", "f", "i", "e", "l", "d", " ", "n", "o", "t", " ", "f",
                    "o", "u", "n", "d">>]
      /\ rOut.result = ExpectedResult(ctx)

\* A string that is one placeholder, not found, resolved with the flag true
C8_Witness ==
  /\ Resolved
  /\ rc.shape = "string"
  /\ OmitFlag
  /\ Len(rc.pieces) = 1
  /\ rc.pieces[1].kind = "tpl"
  /\ \E ctx \in CallContexts : ~Lookup(rc.pieces[1].text, ctx).found
  /\ rOut.result = Str(<<>>)
  /\ Len(rOut.errors) = 1

RECURSIVE ExpectedErrors(_, _)
\* the errors of the placeholders in the order they are visited: not found,
\* or found and empty
ExpectedErrors(ps, ctx) ==
  IF ps = <<>> THEN <<>>
  ELSE (IF Head(ps).kind = "lit" THEN <<>>
        ELSE IF ~Lookup(Head(ps).text, ctx).found
        THEN <<<<"f", "a", "i", "l", "e", "d", " ", "t", "o", " ", "e", "x", "t", "r", "a",
            "c", "t", " ", "f", "i", "e", "l", "d", " ", "'">> \o Head(ps).text \o <<"'", ":",
            " ", "f", "i", "e", "l", "d", " ", "n", "o", "t", " ", "f", "o", "u", "n", "d">>>>
        ELSE IF StringForm(Lookup(Head(ps).text, ctx).value) = <<>>
        THEN <<<<"f", "a", "i", "l", "e", "d", " ", "t", "o", " ", "e", "x", "t", "r", "a",
            "c", "t", " ", "f", "i", "e", "l", "d", " ", "'">> \o Head(ps).text \o <<"'", ":",
            " ", "f", "i", "e", "l", "d", " ", "i", "s", " ", "e", "m", "p", "t", "y">>>>
        ELSE <<>>)
       \o ExpectedErrors(Tail(ps), ctx)

\* C9: template resolution never raises: for any input and context, failing
\* paths included, the call returns a (possibly partially resolved) result
\* and an error list; a failure on one placeholder does not stop the
\* resolution of those that follow it; the errors are in the order the
\* placeholders are visited.
C9_NeverRaises ==
  Resolved =>
    /\ rOut.result.t = rc.input.t
    /\ \E ctx \in CallContexts :
         /\ rOut.errors = ExpectedErrors(rc.pieces, ctx)
         /\ rOut.result = ExpectedResult(ctx)

\* A placeholder whose query throws, followed by one that resolves
C9_Witness ==
  /\ Resolved
  /\ rc.shape = "string"
  /\ rc.pieces = <<Tpl(<<"$", ".", "@">>), Tpl(<<"$", ".", "a">>)>>
  /\ rc.jobContext = Obj(<< <<KeyA, Str(<<"v">>)>> >>)
  /\ rOut.result = Str(<<"{", "N", "o", " ", "V", "a", "l", "u", "e", "}", "v">>)
  /\ Len(rOut.errors) = 1

\* s holds a `{$...}` pattern: `{`, `$`, one or more characters other than
\* `}`, then `}`
HasPlaceholderPattern(s) ==
  \E i \in 1..Len(s), j \in 1..Len(s) :
    /\ s[i] = "{"
    /\ i + 3 <= j
    /\ s[i + 1] = "$"
    /\ s[j] = "}"
    /\ \A k \in (i + 2)..(j - 1) : s[k] # "}"

\* C10: for every string containing no {$...} pattern the resolver returns
\* the string unchanged with zero errors, for any context and any option
\* values; so it does on the output of an earlier resolution.
C10_NoPatternUnchanged ==
  /\ (Resolved /\ rc.input.t = "str" /\ ~HasPlaceholderPattern(rc.input.s))
       => rOut = [result |-> rc.input, errors |-> <<>>]
  /\ (rPc = "again" /\ rOut.result.t = "str" /\ ~HasPlaceholderPattern(rOut.result.s))
       => rAgain = [result |-> rOut.result, errors |-> <<>>]

\* The output of a resolution that replaced something, `{$}` kept in it,
\* resolved again
C10_Witness ==
  /\ rPc = "again"
  /\ rc.input.t = "str"
  /\ Len(rc.pieces) = 2
  /\ rc.pieces[1] = Lit(<<"{", "$", "}">>)
  /\ rc.pieces[2].kind = "tpl"
  /\ rOut.result # rc.input
  /\ ~HasPlaceholderPattern(rOut.result.s)
  /\ rAgain.result = rOut.result
  /\ rAgain.errors = <<>>


(***************************************************************************)
(* Properties of the query engine                                          *)
(***************************************************************************)
\* C11: whenever toPathArray returns, called directly or by evaluate, after
\* any calls of toPathArray and evaluate on this and other paths, the segment
\* list it returns for a raw path equals the one it returned for that path
\* the first time; the list still starts with `$`, which evaluate removed
\* from the list it was handed.
C11_CacheTransparent ==
  qOut.asked =>
    /\ qOut.path \in DOMAIN first
    /\ qOut.list = first[qOut.path]
    /\ qOut.list[1] = <<"$">>

\* toPathArray answers from the cache for a path asked before, another path
\* having been asked as well
C11_Witness ==
  /\ calls = 3
  /\ qOut.kind = "toPathArray"
  /\ qOut.hit
  /\ qOut.path = PathShopPrice
  /\ PathPrices \in DOMAIN cache
  /\ qOut.list = <<<<"$">>, KeyStore, KeyPrice>>

(***************************************************************************)
(* Properties of the parser and the safe evaluator                         *)
(***************************************************************************)
\* The value of a sequence of tokens under the standard rules, found without
\* the parser: an expression is split at the operator outside parentheses
\* that binds least, the last such one for operators that associate to the
\* left; an expression wholly in parentheses is the expression inside.
IsOperatorToken(tok) == tok \in ArithmeticOperators
Depth(tokens, k) ==
  Cardinality({j \in 1..(k - 1) : tokens[j] = <<"(">>})
    - Cardinality({j \in 1..(k - 1) : tokens[j] = <<")">>})
Multiplicative(op) == op \in {<<"*">>, <<"/">>, <<"%">>}
TopOperators(tokens) ==
  {k \in 1..Len(tokens) : IsOperatorToken(tokens[k]) /\ Depth(tokens, k) = 0}
SplitPoint(tokens) ==
  Let(IF \E k \in TopOperators(tokens) : ~Multiplicative(tokens[k])
      THEN {k \in TopOperators(tokens) : ~Multiplicative(tokens[k])}
      ELSE TopOperators(tokens),
      LAMBDA ks : CHOOSE k \in ks : \A j \in ks : j <= k)
RECURSIVE StandardValue(_)
StandardValue(tokens) ==
  IF Len(tokens) = 1 THEN Num(DigitsValue(tokens[1], 0))
  ELSE IF TopOperators(tokens) = {} THEN StandardValue(SubSeq(tokens, 2, Len(tokens) - 1))
  ELSE Let(SplitPoint(tokens), LAMBDA k :
           Arith(tokens[k], StandardValue(SubSeq(tokens, 1, k - 1)),
                 StandardValue(SubSeq(tokens, k + 1, Len(tokens)))))

\* C12: a text of numbers, + - * / % and parentheses parses, and evaluating
\* what was parsed gives the value the text has under the standard rules:
\* * / % bind tighter than + -, operators of equal precedence associate to
\* the left.
C12_StandardArithmetic ==
  ev.kind = "arith" =>
    /\ ev.pc # "failed"
    /\ ev.pc = "done" => ~ev.threw /\ ev.value = StandardValue(ev.form.tokens)

\* C12 witness: 2 + 3 * 4 has been evaluated and gave 14.
C12_Witness ==
  /\ ev.pc = "done"
  /\ ev.kind = "arith"
  /\ ev.text = <<"2", " ", "+", " ", "3", " ", "*", " ", "4">>
  /\ ev.value = Num(14)

RECURSIVE Power(_, _)
Power(a, b) == IF b = 0 THEN 1 ELSE a * Power(a, b - 1)
\* row[k] ** row[k + 1] ** ... ** row[n], the rightmost power taken first
RECURSIVE RightPower(_, _, _)
RightPower(row, k, n) == IF k = n THEN row[k] ELSE Power(row[k], RightPower(row, k + 1, n))
Operands(tokens) == (Len(tokens) + 1) \div 2

\* C13 as stated: a text a ** b ** ... evaluates to the power taken from the
\* right, 2 ** 3 ** 2 to 512.
C13_AsStated ==
  (ev.kind = "power" /\ ev.pc = "done") =>
    /\ ~ev.threw
    /\ ev.value = Num(RightPower(PowerRow, 1, Operands(ev.form.tokens)))

\* The tree a ternary text stands for by the claim: the assignments of the
\* chain from the outermost in, the conditional as the right side of the
\* innermost, its test the operand written before the question mark.
RECURSIVE ChainNode(_, _, _)
ChainNode(ops, k, test) ==
  IF k > Len(ops) THEN ConditionalNode(test.node, OperandC.node, OperandD.node)
  ELSE [type |-> "AssignmentExpression", operator |-> ops[k],
        left |-> IdentifierNode(ChainTargets[k]), right |-> ChainNode(ops, k + 1, test)]

\* C14: the text of a conditional whose test is preceded by a chain of
\* assignments parses to the outermost assignment; each assignment has the
\* next one as its right side, the last one has the conditional, and the
\* test of the conditional is the rightmost operand of the chain alone.
C14_AssignmentWrapsConditional ==
  ev.kind = "ternary" =>
    /\ ev.pc # "failed"
    /\ ev.pc \in {"parsed", "done"} =>
         /\ ev.ast = ChainNode(ev.form.ops, 1, ev.form.test)
         /\ ev.form.ops # <<>> => ev.ast.type = "AssignmentExpression"

\* C14 witness: a = x = b ? c : d has been parsed; the root and its right
\* side are assignments, the conditional comes third.
C14_Witness ==
  /\ ev.pc = "parsed"
  /\ ev.text = <<"a", " ", "=", " ", "x", " ", "=", " ", "b", " ", "?", " ", "c", " ", ":",
      " ", "d">>
  /\ ev.ast.type = "AssignmentExpression"
  /\ ev.ast.right.type = "AssignmentExpression"
  /\ ev.ast.right.right.type = "ConditionalExpression"
  /\ ev.ast.right.right.test = OperandB.node

\* C18 as stated: a read of a blocked name of o, written in any of the three
\* ways, is a type error when o does not own the name and gives the own
\* value when it does.
C18_AsStated ==
  (ev.kind = "member" /\ ev.pc = "done" /\ ev.form.name \in BLOCKED_PROTO_PROPERTIES) =>
    IF ev.form.own THEN ~ev.threw /\ ev.value = OwnValue
    ELSE ev.threw /\ ev.error = "TypeError"

(***************************************************************************)
(* Properties of the results of a query                                    *)
(***************************************************************************)
\* The values a path matches in a document, in the order found
MatchesOf(path, json) ==
  IF ~Truthy(json) THEN <<>>
  ELSE Let(_trace(Tail(normalizePath(path)), json, RootAt, FALSE, FALSE,
                  [eval |-> Str(<<"s", "a", "f", "e">>), ignoreEvalErrors |-> FALSE, root |-> json],
                  EngineState(EmptyCache, Obj(<<>>), <<>>)), LAMBDA r :
           [i \in 1..Len(r.res) |-> r.res[i].value])
IsScalar(v) == v.t \notin {"obj", "arr"}
MatchesOneScalar(path, json) ==
  Len(MatchesOf(path, json)) = 1 /\ IsScalar(MatchesOf(path, json)[1])
\* the path has a segment that can match several values: `*`, `..` or a slice
HasArrayExpression(path) ==
  \E i \in 1..Len(normalizePath(path)) :
     normalizePath(path)[i] \in {<<"*">>, <<".", ".">>} \/ IsSlice(normalizePath(path)[i])

RECURSIVE PreOrder(_, _)
RECURSIVE PreOrderEach(_, _)
PreOrderEach(kids, key) ==
  IF kids = <<>> THEN <<>> ELSE PreOrder(Head(kids), key) \o PreOrderEach(Tail(kids), key)
PreOrder(val, key) ==
  (IF val.t = "obj" /\ \E i \in 1..Len(val.kv) : val.kv[i][1] = key
   THEN <<ObjGet(val, key)>> ELSE <<>>)
    \o (CASE val.t = "obj" -> PreOrderEach([i \in 1..Len(val.kv) |-> val.kv[i][2]], key)
          [] val.t = "arr" -> PreOrderEach(val.items, key)
          [] OTHER -> <<>>)
\* the entries for key of the elements of an array, in index order
RECURSIVE EachEntry(_, _)
EachEntry(items, key) ==
  IF items = <<>> THEN <<>>
  ELSE (IF Head(items).t = "obj" /\ \E i \in 1..Len(Head(items).kv) : Head(items).kv[i][1] = key
        THEN <<ObjGet(Head(items), key)>> ELSE <<>>) \o EachEntry(Tail(items), key)
\* what a query gave, as a sequence (nothing when it gave undefined)
ResultList(q) == IF q.value.t = "arr" THEN q.value.items ELSE <<>>
BooksOf(json) ==
  IF json.t = "obj" /\ ObjGet(json, KeyStore).t = "obj"
       /\ ObjGet(ObjGet(json, KeyStore), KeyBook).t = "arr"
  THEN ObjGet(ObjGet(json, KeyStore), KeyBook).items
  ELSE <<>>
ElementsOfA(json) ==
  IF json.t = "obj" /\ ObjGet(json, KeyA).t = "arr" THEN ObjGet(json, KeyA).items
  ELSE <<>>

\* C16: the results come in document order: $.store.book[*].author gives the
\* authors in the order of the books, $.a[*] the elements in index order,
\* and $..price every price at any depth once, in pre-order.
C16_DocumentOrder ==
  (qOut.kind = "evaluate" /\ Truthy(qOut.json)) =>
    /\ qOut.path = PathAuthors => ResultList(qOut) = EachEntry(BooksOf(qOut.json), KeyAuthor)
    /\ qOut.path = PathAll => ResultList(qOut) = ElementsOfA(qOut.json)
    /\ qOut.path = PathPrices => ResultList(qOut) = PreOrder(qOut.json, KeyPrice)

\* C16 witness: $..price asked of the store has given the price of the store
\* itself, then those of the two books in their order.
C16_Witness ==
  /\ qOut.kind = "evaluate"
  /\ qOut.path = PathPrices
  /\ qOut.json = DocStore
  /\ qOut.value = Arr(<<Num(3), Num(1), Num(2)>>)

(***************************************************************************)
(* Properties of a slice                                                   *)
(***************************************************************************)
\* The indices Python's slicing selects on a sequence of n elements for a
\* positive step: a negative bound counts from the end, a bound is clamped
\* to 0..n, a missing start is 0, a missing end is n, a missing step is 1.
PythonBound(p, n, dflt) ==
  IF p = Omitted THEN dflt
  ELSE IF p[1] < 0 THEN (IF p[1] + n < 0 THEN 0 ELSE p[1] + n)
  ELSE IF p[1] > n THEN n ELSE p[1]
RECURSIVE PythonRange(_, _, _)
PythonRange(i, stop, step) ==
  IF i >= stop THEN <<>> ELSE <<i>> \o PythonRange(i + step, stop, step)
PythonIndices(start, end, step, n) ==
  PythonRange(PythonBound(start, n, 0), PythonBound(end, n, n),
              IF step = Omitted THEN 1 ELSE step[1])

\* C17 as stated: a slice of an array gives the elements at the indices
\* Python's slicing selects, in their order; a slice of a value that is no
\* array gives nothing.
C17_AsStated ==
  sl.pc = "done" =>
    /\ ~sl.threw
    /\ sl.value =
         IF sl.target.t = "arr"
         THEN Let(PythonIndices(sl.start, sl.end, sl.step, Len(sl.target.items)),
                  LAMBDA idx : Arr([k \in 1..Len(idx) |-> Num(idx[k])]))
         ELSE Arr(<<>>)

(***************************************************************************)
(* Properties of the resolver's omission of entries                        *)
(***************************************************************************)
\* what the template string of the call resolves to in a context
ResolvedText(ctx) ==
  resolveTemplateString(PiecesText(rc.pieces), ctx, OmitFlag, EmptyCache).result
IsNoValue(text) == text \in {<<>>, NO_VALUE_PLACEHOLDER}

\* C19: the result is the input with its string resolved, every key, array
\* length and nesting kept and the number and the null beside the string
\* unchanged, except that the mapping entry or array element of the string
\* is left out when omitNoValueForExactTemplates is set and the string
\* resolved to the empty string or to '{No Value}', and only then.
C19_DroppedIffNoValue ==
  Resolved =>
    \E ctx \in CallContexts :
       rOut.result =
         IF OmitFlag /\ IsNoValue(ResolvedText(ctx)) /\ rc.shape # "string"
         THEN ReshapeOmitting(rc.shape, ResolvedText(ctx))
         ELSE Reshape(rc.shape, ResolvedText(ctx))

\* C19 witness: with the flag set, the entry k of a mapping whose value
\* resolved to '{No Value}' (the value found for the placeholder) has been
\* left out, and the number beside it kept.
C19_Witness ==
  /\ Resolved
  /\ OmitFlag
  /\ rc.shape = "mapping"
  /\ rc.pieces = <<Tpl(<<"$", ".", "a">>)>>
  /\ rc.jobContext = Obj(<< <<KeyA, Str(NO_VALUE_PLACEHOLDER)>> >>)
  /\ rOut.result = Obj(<< <<KeyN, Num(7)>> >>)

(***************************************************************************)
(* Properties of the injected namespace                                    *)
(***************************************************************************)
\* the strings held anywhere in a value
RECURSIVE StringsOf(_)
StringsOf(v) ==
  CASE v.t = "str" -> {v.s}
    [] v.t = "arr" -> UNION {StringsOf(v.items[i]) : i \in 1..Len(v.items)}
    [] v.t = "obj" -> UNION {StringsOf(v.kv[i][2]) : i \in 1..Len(v.kv)}
    [] OTHER -> {}

\* C20: the namespace is computed once for a call: the result is the input
\* with its template string replaced, in every place and at every depth, by
\* what the placeholders give in one and the same job context, so that all
\* the places hold the same time and the same UUID.
C20_OneNamespacePerCall ==
  (Resolved /\ rc.shape \in SgnlShapes) =>
    /\ \E ctx \in CallContexts :
         rOut.result = SgnlInputOf(rc.shape, Replaced(rc.pieces, ctx, <<>>))
    /\ rOut.errors = <<>>
    /\ Cardinality(StringsOf(rOut.result)) = 1

\* C20 witness: a call made at the later time has put the later time and the
\* later UUID in the three places of the deepest input.
C20_Witness ==
  /\ Resolved
  /\ rc.shape = "deep"
  /\ rc.pieces = <<Tpl(PathNow), Lit(<<"/">>), Tpl(PathUuid)>>
  /\ rc.jobContext = Undefined
  /\ rOut.result = SgnlInputOf("deep", <<"1", "2", ":", "0", "1", "Z", "/", "u", "2">>)

(***************************************************************************)
(* Properties of a namespace the caller has filled                         *)
(***************************************************************************)
\* the path the call reads
ProbedPath == rc.pieces[1].text
\* what the caller's own job context holds at the path: [value, found]
CallerHas == Lookup(ProbedPath, IF rc.jobContext.t = "obj" THEN rc.jobContext ELSE Obj(<<>>))
\* the caller supplies a value that is no mapping at the path
CallerSupplies == CallerHas.found /\ CallerHas.value.t # "obj"
\* the text the call put in place of the placeholder
ProbedText == rOut.result.kv[1][2].s

\* C21 as stated: when the caller's job context supplies a value at a key
\* under sgnl, the placeholder reading that key resolves to the caller's
\* value; the injected time and UUID appear only at sgnl.time.now and
\* sgnl.random.uuid when the caller supplies nothing there.
C21_AsStated ==
  (Resolved /\ rc.shape \in CallerShapes) =>
    /\ CallerSupplies => ProbedText = StringForm(CallerHas.value)
    /\ (~CallerHas.found /\ ProbedPath = PathNow) =>
         \E now \in ClockOf(rc.shape) : ProbedText = formatRFC3339(now)
    /\ (~CallerHas.found /\ ProbedPath = PathUuid) => ProbedText \in UuidsOf(rc.shape)

(***************************************************************************)
(* Properties of queries with a filter or a script                         *)
(***************************************************************************)
Queried == qOut.kind = "query"
\* the value the chain of names of the query leads to, in a list, or no value
RECURSIVE ValueAlong(_, _)
ValueAlong(val, names) ==
  IF names = <<>> THEN <<val>>
  ELSE IF Truthy(val) /\ HasOwn(val, Head(names))
  THEN ValueAlong(GetOwn(val, Head(names)), Tail(names))
  ELSE <<>>
\* the values at which the trace comes to the segment of the query
ValuesAtSegment(q, json) ==
  LET v == ValueAlong(json, q.names)
  IN IF v = <<>> THEN {}
     ELSE IF ~q.star THEN {v[1]}
     ELSE {GetOwn(v[1], ToStringValue(WalkKeys(v[1])[i])) : i \in 1..Len(WalkKeys(v[1]))}
\* after a wildcard, a value that owns a property named like the segment
OwnsTheName(q, val) == q.star /\ Truthy(val) /\ HasOwn(val, q.segment)
PreventedMessage(segment) ==
  IF IsFilter(segment) THEN EvalPreventedFilter ELSE EvalPreventedScript
QueryPrevented ==
  /\ qOut.threw
  /\ qOut.error = PreventedMessage(qOut.query.segment)
  /\ built = qOut.builtBefore
  /\ qOut.sandboxAfter = qOut.sandbox

C23_AsStated ==
  Queried => qOut.sandboxAfter = qOut.sandbox

NoDuplicates(seq) == \A i, j \in 1..Len(seq) : seq[i] = seq[j] => i = j

\* C25: a key that is in JSONPath.cache stays in it with the value it has,
\* whatever query is made next, and no key is built a script for twice: the
\* keys under which scripts were built are each in the cache and all
\* different, however many values a filter is applied to.
C25_AppendOnly ==
  [][/\ \A k \in DOMAIN cache : k \in DOMAIN cache' /\ cache'[k] = cache[k]
     /\ NoDuplicates(built')
     /\ \A i \in 1..Len(built') : built'[i] \in DOMAIN cache']_vars

\* C25 witness: a second query has applied to three items a filter that the
\* first query had built, and has built nothing.
C25_Witness ==
  /\ Queried
  /\ calls = 2
  /\ qOut.query = FilterQuery(<<KeyItems>>, FALSE, FilterAbove, <<>>)
  /\ ~qOut.threw
  /\ Len(qOut.value.items) = 2
  /\ built = qOut.builtBefore
  /\ Len(built) = 1

(***************************************************************************)
(* Properties of two callers of the cache                                  *)
(***************************************************************************)
HasReturned(c) == race.pc[c] \in {"evaluate", "done"}
\* what a caller alone is given for its key
GivenAlone(job) ==
  IF job.kind = "path" THEN Computed(job)
  ELSE runInNewContext(Computed(job), RaceSandbox).value
\* the list a caller holds after its own shift of the `$`
Shifted(list) == IF Len(list) > 1 /\ list[1] = <<"$">> THEN Tail(list) ELSE list

\* C24: in whatever order two callers take the steps of their look-ups, what
\* the cache holds under a key is what a caller alone stores under it, what
\* each caller is given is what a caller alone is given, so that two
\* callers of one key are given equal results, and the list a caller was
\* given is an object of its own: neither the cache nor the other caller
\* holds it, and it changes by its holder's own shift only.
C24_RaceHarmless ==
  /\ \A c \in Callers :
       race.job[c].key \in DOMAIN cache => cache[race.job[c].key] = Computed(race.job[c])
  /\ \A c \in Callers : HasReturned(c) => race.given[c] = GivenAlone(race.job[c])
  /\ \A c, d \in Callers :
       (HasReturned(c) /\ HasReturned(d) /\ race.job[c].key = race.job[d].key) =>
         race.given[c] = race.given[d]
  /\ \A c \in Callers :
       (HasReturned(c) /\ race.job[c].kind = "path") =>
         /\ race.objects[race.result[c]] =
              (IF race.pc[c] = "done" THEN Shifted(race.given[c]) ELSE race.given[c])
         /\ \A k \in DOMAIN race.refs : race.refs[k] # race.result[c]
         /\ \A d \in Callers \ {c} : race.result[d] # race.result[c]

\* C24 witness: both callers missed the same raw path, both computed and
\* stored its list, and both have shifted the list they were given.
C24_Witness ==
  /\ race.missed = <<TRUE, TRUE>>
  /\ race.job[1] = race.job[2]
  /\ race.job[1].kind = "path"
  /\ race.pc = <<"done", "done">>
  /\ race.made[1] # race.made[2]

(***************************************************************************)
(* Properties of the registry of plugins                                   *)
(***************************************************************************)
\* the places of the plugins of a name in a list of plugins
PlacesOf(name, plugins) == {i \in 1..Len(plugins) : plugins[i].name = name}
First(S) == CHOOSE i \in S : \A j \in S : i <= j

\* C26 as stated: after any calls of register, each name a plugin was
\* registered under has had one init run, that of the first plugin
\* registered under it, and a call that brings only names registered before
\* leaves the hooks and the operator tables as they were.
C26_AsStated ==
  /\ \A i \in 1..Len(pl.offered) :
       LET name == pl.offered[i].name
       IN /\ Cardinality(PlacesOf(name, pl.inits)) = 1
          /\ pl.inits[First(PlacesOf(name, pl.inits))] =
               pl.offered[First(PlacesOf(name, pl.offered))]
  /\ (/\ pl.asked # <<>>
      /\ \A i \in 1..Len(pl.asked) :
           PlacesOf(pl.asked[i].name, pl.before.inits) # {}) =>
       /\ pl.hooks = pl.before.hooks
       /\ pl.tables = pl.before.tables
       /\ pl.inits = pl.before.inits

(***************************************************************************)
(* Properties of the logical operators and of calls                        *)
(***************************************************************************)
Evaluated == ev.pc = "done"
IsLogical(ast) ==
  /\ ast.type \in {"BinaryExpression", "LogicalExpression"}
  /\ ast.operator \in LogicalOperators
\* the left operand decides: truthy under ||, falsy under &&
LeftDecides(ast, left) ==
  /\ ~left.threw
  /\ (ast.operator = <<"|", "|">>) = Truthy(left.value)

\* C27: when the left operand of || is truthy or the left operand of && is
\* falsy, the evaluation gives what the left operand alone gives: its value,
\* no error, and the bindings as the left operand left them, whether the
\* right operand is an assignment or a name that is not bound.
C27_ShortCircuit ==
  (Evaluated /\ IsLogical(ev.ast) /\ LeftDecides(ev.ast, evalAst(ev.ast.left, ev.subs))) =>
    /\ ~ev.threw
    /\ ev.value = evalAst(ev.ast.left, ev.subs).value
    /\ ev.subsOut = evalAst(ev.ast.left, ev.subs).subs

\* C27 witness: 1 || (a = 5) has been evaluated, and a is still 0.
C27_Witness ==
  /\ Evaluated
  /\ ev.kind = "logical"
  /\ ev.form = [left |-> <<"1">>, op |-> <<"|", "|">>,
                right |-> <<"(", "a", " ", "=", " ", "5", ")">>]
  /\ IsLogical(ev.ast)
  /\ ev.ast.right.type = "AssignmentExpression"
  /\ ev.value = Num(1)
  /\ ObjGet(ev.subsOut, <<"a">>) = Num(0)

\* what a call gives if the callee is evaluated first, then the arguments
\* from left to right, then the callee invoked
CalleeFirst(ast, subs) ==
  Let(evalAst(ast.callee, subs), LAMBDA func :
      IF func.threw THEN func
      ELSE Let(evalArguments(ast.arguments, 1, <<>>, func.subs), LAMBDA args :
               IF args.threw THEN args
               ELSE CallFunction(func.value, args.value.items, args.subs)))

\* C28 as stated: a call gives what it gives when the callee is evaluated
\* first and the arguments after it from left to right: the callee's error
\* when the callee and an argument both fail, and the arguments see the
\* bindings as the callee left them.
C28_AsStated ==
  (Evaluated /\ ev.ast.type = "CallExpression") =>
    /\ ev.threw = CalleeFirst(ev.ast, ev.subs).threw
    /\ ev.error = CalleeFirst(ev.ast, ev.subs).error
    /\ ev.value = CalleeFirst(ev.ast, ev.subs).value

(***************************************************************************)
(* Properties of the credentials                                           *)
(***************************************************************************)
\* The secret, or the setting of the environment, of the call under way
SecretOf(name) == OptGet(call.context.secrets, name)
SettingOf(name) == OptGet(call.context.environment, name)
IsSet(value) == value \notin {Undefined, Str(<<>>)}

BearerConfigured == IsSet(SecretOf(BEARER_AUTH_TOKEN))
BasicConfigured == IsSet(SecretOf(BASIC_USERNAME)) /\ IsSet(SecretOf(BASIC_PASSWORD))
CodeConfigured == IsSet(SecretOf(OAUTH2_AUTHORIZATION_CODE_ACCESS_TOKEN))
ClientCredentialsConfigured == IsSet(SecretOf(OAUTH2_CLIENT_CREDENTIALS_CLIENT_SECRET))

OnlyClientCredentials ==
  /\ ClientCredentialsConfigured
  /\ ~BearerConfigured
  /\ ~BasicConfigured
  /\ ~CodeConfigured

TokenEndpointKnown ==
  /\ IsSet(SettingOf(OAUTH2_CLIENT_CREDENTIALS_TOKEN_URL))
  /\ IsSet(SettingOf(OAUTH2_CLIENT_CREDENTIALS_CLIENT_ID))

AddressKnown == IsSet(OptGet(call.params, AddressKey)) \/ IsSet(SettingOf(ADDRESS))

IsTokenRequestAt(i) ==
  /\ i <= Len(requests)
  /\ requests[i].method = "POST"
  /\ Str(requests[i].url) = SettingOf(OAUTH2_CLIENT_CREDENTIALS_TOKEN_URL)

IsDirectoryRequestAt(i) == IsLookupAt(i) \/ IsRemovalAt(i)

AccessTokenKey == <<"a", "c", "c", "e", "s", "s", "_", "t", "o", "k", "e", "n">>

\* the token endpoint has answered, and its answer carries a token
TokenObtained ==
  /\ Len(responses) >= 1
  /\ responses[1].ok
  /\ IsSet(ObjGet(responses[1].body, AccessTokenKey))

AuthorizationAt(i) == ObjGet(requests[i].headers, AuthorizationKey)

RejectedWith(count) ==
  /\ hPc = "done"
  /\ outcome.kind = "threw"
  /\ Len(requests) = count

\* The header of the method that comes first in the priority bearer token,
\* basic auth, authorization-code access token, for the secrets of the
\* inputs: the bearer token `t1` or `Bearer t1`, the user `u` with the
\* password `pw`, the access token `t2`.
HeaderByPriority ==
  IF BearerConfigured THEN Str(<<"B", "e", "a", "r", "e", "r", " ", "t", "1">>)
  ELSE IF BasicConfigured THEN Str(<<"B", "a", "s", "i", "c", " ", "d", "T", "p", "w", "d",
      "w", "=", "=">>)
  ELSE Str(<<"B", "e", "a", "r", "e", "r", " ", "t", "2">>)

\* C29: when only OAuth2 client credentials are configured, invoke issues
\* the token request before any directory request, and sends the obtained
\* token as 'Bearer <token>' on both the lookup and the removal; if the token
\* request is non-ok, returns no access_token, or TOKEN_URL / CLIENT_ID is
\* missing, invoke rejects without issuing the user lookup or the removal.
\* When several credentials are configured exactly one method is used, in the
\* fixed priority bearer token, basic auth, authorization-code access token,
\* client credentials.
C29_TokenBeforeDirectory ==
  call.handler = "invoke" =>
    /\ OnlyClientCredentials =>
         /\ (/\ ~MissingOrEmpty(UserPrincipalNameKey)
             /\ ~MissingOrEmpty(RoleIdKey)
             /\ AddressKnown
             /\ TokenEndpointKnown) => IsTokenRequestAt(1)
         /\ \A i \in 1..Len(requests) :
              IsDirectoryRequestAt(i) =>
                /\ i > 1
                /\ IsTokenRequestAt(1)
                /\ ~IsTokenRequestAt(i)
                /\ TokenObtained
                /\ AuthorizationAt(i)
                     = Str(BearerPrefix \o ObjGet(responses[1].body, AccessTokenKey).s)
         /\ ~TokenEndpointKnown => RejectedWith(0)
         /\ (Len(responses) >= 1 /\ ~TokenObtained) => RejectedWith(1)
    /\ (BearerConfigured \/ BasicConfigured \/ CodeConfigured) =>
         /\ TokenRequests = 0
         /\ \A i \in 1..Len(requests) :
              /\ IsDirectoryRequestAt(i)
              /\ AuthorizationAt(i) = HeaderByPriority

\* An invoke with only client credentials configured that obtained the token
\* `t3` and returned after the lookup and the removal
C29_Witness ==
  /\ call.handler = "invoke"
  /\ OnlyClientCredentials
  /\ Len(requests) = 3
  /\ AuthorizationAt(2) = Str(<<"B", "e", "a", "r", "e", "r", " ", "t", "3">>)
  /\ AuthorizationAt(3) = Str(<<"B", "e", "a", "r", "e", "r", " ", "t", "3">>)
  /\ outcome.kind = "returned"


(***************************************************************************)
(* Properties of the warnings                                              *)
(***************************************************************************)
\* A placeholder of the call under way failed to resolve: the data of the job
\* has no field `a`, or an empty one
TemplateFailed ==
  /\ OptGet(call.context.data, KeyA) \in {Undefined, Str(<<>>)}
  /\ \E k \in {UserPrincipalNameKey, RoleIdKey} :
       ObjGet(call.params, k) = Str(<<"{", "$", ".", "a", "}">>)

\* the errors are logged, once, and nothing else is
WarnedOnly == warnings # <<>> <=> TemplateFailed

ResolvedNonEmpty ==
  /\ ~MissingOrEmpty(UserPrincipalNameKey)
  /\ ~MissingOrEmpty(RoleIdKey)

\* validation, the lookup and the removal use what the parameters resolved to
UsesResolvedValues ==
  /\ ~ResolvedNonEmpty => RejectedWith(0)
  /\ \A i \in 1..Len(requests) :
       /\ IsLookupAt(i) =>
            requests[i].url
              = UsersUrl \o encodeURIComponent(ExpectedParam(UserPrincipalNameKey).s)
       /\ IsRemovalAt(i) =>
            Contains(requests[i].body.s,
                     Member(<<"r", "o", "l", "e", "D", "e", "f", "i", "n", "i", "t", "i", "o",
                         "n", "I", "d">>, ExpectedParam(RoleIdKey).s))

\* invoke went on to the user lookup, and if it failed, a request was refused
\* or the network failed
Proceeded ==
  /\ \E i \in 1..Len(requests) : IsLookupAt(i)
  /\ outcome.kind = "threw" =>
       \/ outcome.value.message = <<"f", "e", "t", "c", "h", " ", "f", "a", "i", "l", "e", "d">>
       \/ responses # <<>> /\ ~responses[Len(responses)].ok

\* getAuthorizationHeader has given a header: a bearer token, basic auth or
\* an access token is configured, or the client credentials are, with the
\* token endpoint, and the token request was answered with a token
HeaderObtained ==
  \/ BearerConfigured
  \/ BasicConfigured
  \/ CodeConfigured
  \/ ClientCredentialsConfigured /\ TokenEndpointKnown /\ TokenObtained

\* C30 as stated: template-resolution errors alone never make invoke fail or
\* skip a step: they are only logged as a warning, and validation and both
\* requests use the resolved parameter values; so whenever the resolved
\* userPrincipalName and roleId are non-empty strings, invoke proceeds to the
\* user lookup even if the error list is non-empty.
C30_AsStated ==
  call.handler = "invoke" =>
    /\ WarnedOnly
    /\ UsesResolvedValues
    /\ (ResolvedNonEmpty /\ hPc = "done") => Proceeded

\* C30, amended: template-resolution errors alone never make invoke fail or
\* skip a step: they are only logged as a warning, and validation and both
\* requests use the resolved parameter values; so whenever the resolved
\* userPrincipalName and roleId are non-empty strings, a base address is
\* available and an authorization header is obtained, invoke proceeds to the
\* user lookup even if the error list is non-empty.
C30_ErrorsOnlyWarned ==
  call.handler = "invoke" =>
    /\ WarnedOnly
    /\ UsesResolvedValues
    /\ (ResolvedNonEmpty /\ AddressKnown /\ HeaderObtained) => Proceeded

\* An invoke whose userPrincipalName placeholder failed to resolve: the
\* warning was logged, the marker was looked up and the role removed
C30_Witness ==
  /\ call.handler = "invoke"
  /\ warnings # <<>>
  /\ ExpectedParam(UserPrincipalNameKey) = Str(NO_VALUE_PLACEHOLDER)
  /\ Len(requests) >= 2
  /\ outcome.kind = "returned"

=============================================================================
